---- MODULE Spec2Model ----
(***************************************************************************)
(* Melody generation engine of hydral (songMaking): choose_harmony, the    *)
(* duration grid, the scale pitch set, the Random, Scored and Markov       *)
(* generators, the structure enforcer (motif repetition), the evaluation   *)
(* metrics and the CLI's pitch-constraint retry loop.                      *)
(*                                                                         *)
(* Specifications.  Spec: one call of a generator.  SpecEval: one call of  *)
(* aggregate_melody_score.  SpecCli: the retry loop of generate_and_save.  *)
(* SpecDet: two calls with identical inputs.                               *)
(*                                                                         *)
(* Encoding.  Beats are counted in millibeats (1 beat = 1000), so that the *)
(* alphabet 4, 2, 1, 0.5, 0.25, 0.125, the grid 0.125 and the tolerances   *)
(* 0.001 and 0.01 of the source are all integers.  Probabilities are       *)
(* percentages.  Python's None is encoded per type (NoPitch, Unseeded,     *)
(* an empty sequence for a missing rhythm profile).                        *)
(***************************************************************************)
EXTENDS Integers, Sequences, FiniteSets, TLC

VARIABLES
    fixed_streams,   \* TRUE: a seed fixes the raw stream (needed when a seed is reused)
    harmony_spec,    \* HarmonySpec handed to the generators
    built_scale,     \* the list build_scale_pitch_set returned for it
    generation_config,
    structure_spec,
    method,          \* "random" | "scored" | "markov"; "harmony": choose_harmony alone
    args,            \* CLI arguments of the retry loop
    seed,            \* base seed
    attempt,         \* cli.py: attempt counter of the retry loop
    cli_pc,          \* position of generate_and_save / of the driver
    warned,          \* "Failed to meet pitch constraint" was printed
    attempt_log,     \* history: seed and verdict of each generation of the retry loop
    gen_pc,          \* position inside the running generator
    rng,             \* the generator's random.Random instance
    transitions,     \* PitchTransitionModel.transitions, as <<context, next>> entries
    pitches,
    durations,
    elapsed_beats,
    debug_stats,
    snap_fallbacks,  \* history: times choose_duration returned snap_to_grid(remaining)
    scored_pc,       \* position inside generate_scored_melody
    trial,           \* scored.py: the loop variable "attempt" of the candidate loop
    candidates,      \* scored.py: the candidates accepted so far
    score,           \* score returned by generate_scored_melody
    combined_debug_stats,
    scored_log,      \* history: the melodies generate_scored_melody has examined
    first_result,    \* result of the first of two identical calls
    eval_in,         \* arguments of aggregate_melody_score
    eval_out,        \* its result
    steps,           \* Pipeline._steps, by step name
    ctx,             \* the PipelineContext handed from step to step
    step_idx,        \* number of steps Pipeline.run has been through
    pipe_pc,         \* position of Pipeline.run
    run_log,         \* history: the steps run, with the context each got and returned
    sidecar,         \* the sidecar JSON file next to the WAV
    meta_pc,         \* position of the caller of ensure_metadata
    call_log,        \* history: what each call of ensure_metadata returned and wrote
    input_files,     \* yaml_runner.py: the files collect_inputs returned
    file_idx,        \* number of files run_pipeline has been through
    disk,            \* the output files and directories that exist
    file_trace,      \* the FileTrace of the file being processed
    file_failed,
    step_fingerprints,
    report           \* RunReport.files

vars == <<fixed_streams, harmony_spec, built_scale, generation_config, structure_spec, method,
          args, seed, attempt, cli_pc, warned, attempt_log, gen_pc, rng, transitions, pitches,
          durations, elapsed_beats, debug_stats, snap_fallbacks, scored_pc, trial,
          candidates, score, combined_debug_stats, scored_log, first_result, eval_in,
          eval_out, steps, ctx, step_idx, pipe_pc, run_log, sidecar, meta_pc, call_log,
          input_files, file_idx, disk, file_trace, file_failed, step_fingerprints, report>>

pipeline_vars == <<steps, ctx, step_idx, pipe_pc, run_log>>
metadata_vars == <<sidecar, meta_pc, call_log>>
runner_vars == <<input_files, file_idx, disk, file_trace, file_failed, step_fingerprints, report>>
hydral_vars == <<pipeline_vars, metadata_vars, runner_vars>>

----------------------------------------------------------------------------
(* Bounds of the model *)

RawRange == 12        \* resolution of one raw draw of the random generator
MaxMeasures == 6      \* total_measures of a Random request ranges over 1..MaxMeasures
MaxMarkovMeasures == 3 \* total_measures of a Markov request ranges over 1..MaxMarkovMeasures
MaxAttempts == 2      \* args.max_attempts ranges over 1..MaxAttempts
MaxSeed == 5          \* seeds range over 0..MaxSeed
MaxWalks == 1         \* random walks in the Markov training data
MaxWalkLen == 2       \* longest random walk in the Markov training data
MaxCandidates == 3    \* config candidate_count ranges over 0..MaxCandidates
MaxEvalNotes == 3     \* longest pitch list handed to the evaluation directly
MaxCliMeasures == 3   \* bars of the melodies the retry loop generates exhaustively
MaxZigzagNotes == 14  \* longest widening zigzag handed to the evaluation
MaxStuckNotes == 4    \* notes followed of a loop whose elapsed_beats stays at 0

----------------------------------------------------------------------------
(* Generic helpers *)

RECURSIVE SumSeq(_)
SumSeq(s) == IF s = <<>> THEN 0 ELSE Head(s) + SumSeq(Tail(s))

Range(s) == {s[i] : i \in 1..Len(s)}

Min2(a, b) == IF a <= b THEN a ELSE b
Max2(a, b) == IF a >= b THEN a ELSE b
Abs(x) == IF x < 0 THEN -x ELSE x

SetMin(S) == CHOOSE x \in S : \A y \in S : x <= y
SetMax(S) == CHOOSE x \in S : \A y \in S : x >= y

\* sorted(set(...)): the ascending list of a finite set of integers
RECURSIVE Sorted(_)
Sorted(S) == IF S = {} THEN <<>> ELSE <<SetMin(S)>> \o Sorted(S \ {SetMin(S)})

\* s[:n] without the cut
TakeAll(s, n) == s

\* s[:n]
Take(s, n) == SubSeq(s, 1, Min2(n, Len(s)))

\* [x for x in s if x > 0]
Sounding(s) == SelectSeq(s, LAMBDA p : p > 0)

\* list.index(x): position (1-based) of the first x
IndexOf(s, x) == SetMin({i \in 1..Len(s) : s[i] = x})

\* s repeated n times
RECURSIVE Repeat(_, _)
Repeat(s, n) == IF n <= 0 THEN <<>> ELSE s \o Repeat(s, n - 1)

----------------------------------------------------------------------------
(* random.Random *)

Unseeded == -1     \* random.Random() without a seed
NoPitch == -1      \* previous_pitch is None

\* The raw stream of a seeded generator: a fixed function of seed and position.
Stream(key, pos) ==
    ((key + 1) * 7919 + pos * 104729 + key * pos * 31 + pos * pos * 17) % 1009

\* random.Random(seed)
NewRandom(s) == [key |-> s, pos |-> 0]

\* random.Random()
NewRandomUnseeded(s) == [key |-> Unseeded, pos |-> 0]

Fixed(r) == fixed_streams /\ r.key # Unseeded

\* Random._randbelow(n): the values the next draw of r can give.  With
\* fixed_streams the value is the one the seed fixes; otherwise every value is
\* possible, which covers every stream a seed could stand for.  An unseeded
\* generator is never fixed.
randbelow(r, n) == IF Fixed(r) THEN {Stream(r.key, r.pos) % n} ELSE 0..(n - 1)

Adv(r) == IF Fixed(r) THEN [r EXCEPT !.pos = @ + 1] ELSE r

\* rng.random() < p, p in percent; random() has RawRange equidistant values
random_lt(r, p) ==
    {[v |-> (raw * 100 < p * RawRange), rng |-> Adv(r)] : raw \in randbelow(r, RawRange)}

\* rng.choice(seq)
choice(r, seq) ==
    {[v |-> seq[i + 1], rng |-> Adv(r)] : i \in randbelow(r, Len(seq))}

\* rng.randint(a, b)
randint(r, a, b) ==
    {[v |-> a + i, rng |-> Adv(r)] : i \in randbelow(r, b - a + 1)}

\* rng.choices(population, weights=weights)[0]: bisect of random() * total in
\* the cumulative weights
choices_pick(raw, weights) ==
    LET n == Len(weights)
        cum(i) == SumSeq(SubSeq(weights, 1, i))
        total == cum(n)
        hits == {i \in 1..n : cum(i) * RawRange > raw * total}
    IN IF hits = {} THEN n ELSE SetMin(hits)

choices(r, population, weights) ==
    {[v |-> population[choices_pick(raw, weights)], rng |-> Adv(r)] :
        raw \in randbelow(r, RawRange)}

\* consecutive draws rng._randbelow(sizes[1]), rng._randbelow(sizes[2]), ...
RECURSIVE Draws(_, _)
Draws(r, sizes) ==
    IF sizes = <<>> THEN {[v |-> <<>>, rng |-> r]}
    ELSE UNION {{[v |-> <<i>> \o rest.v, rng |-> rest.rng] : rest \in Draws(Adv(r), Tail(sizes))} :
                i \in randbelow(r, Head(sizes))}

----------------------------------------------------------------------------
(* harmony.py.  subdivision_unit is counted in sixteenths of a beat. *)

note_names == <<"C", "D", "E", "F", "G", "A", "B">>
accidentals == <<"", "b", "#">>

ionian == <<0, 2, 4, 5, 7, 9, 11>>
dorian == <<0, 2, 3, 5, 7, 9, 10>>

\* the values of scale_library, in the dictionary's order
scale_library ==
    <<ionian, dorian, <<0, 1, 3, 5, 7, 8, 10>>, <<0, 2, 4, 6, 7, 9, 11>>,
      <<0, 2, 4, 5, 7, 9, 10>>, <<0, 2, 3, 5, 7, 8, 10>>, <<0, 2, 3, 5, 7, 8, 11>>,
      <<0, 2, 3, 5, 7, 9, 11>>, <<0, 2, 4, 7, 9>>, <<0, 3, 5, 7, 10>>>>

\* the last label carries a degree sign in the source; the labels are decorative
roman_options == <<"I", "ii", "iii", "IV", "V", "vi", "vii">>
time_sigs == <<<<3, 4>>, <<4, 4>>, <<5, 4>>, <<6, 8>>, <<7, 8>>>>
note_divisions == <<1, 2, 4, 8>>
measure_counts == <<4, 8, 12, 16>>

\* options.get("min_bpm", 80), options.get("max_bpm", 140)
DefaultOptions == [min_bpm |-> 80, max_bpm |-> 140]

\* root + accidental as one of the names note_map knows
Spell(name, accidental) ==
    IF accidental = "" THEN name
    ELSE IF accidental = "b" THEN
        CASE name = "C" -> "Cb" [] name = "D" -> "Db" [] name = "E" -> "Eb"
          [] name = "F" -> "Fb" [] name = "G" -> "Gb" [] name = "A" -> "Ab"
          [] name = "B" -> "Bb"
    ELSE
        CASE name = "C" -> "C#" [] name = "D" -> "D#" [] name = "E" -> "E#"
          [] name = "F" -> "F#" [] name = "G" -> "G#" [] name = "A" -> "A#"
          [] name = "B" -> "B#"

\* choose_harmony: the HarmonySpecs the seed can give
choose_harmony(rng_seed, options) ==
    LET first == Draws(NewRandom(rng_seed), <<Len(note_names), Len(accidentals),
                                              Len(scale_library), 8 - 4 + 1>>)
    IN UNION {
         LET prog_length == 4 + a.v[4]
             more == Draws(a.rng,
                        [k \in 1..prog_length |-> Len(roman_options)]
                        \o <<options.max_bpm - options.min_bpm + 1, Len(time_sigs),
                             5 - 3 + 1, 24 - 14 + 1, Len(note_divisions), Len(measure_counts)>>)
         IN {LET d == b.v
                 low_note == ((3 + d[prog_length + 3]) + 1) * 12
             IN [v |-> [tonic_note |-> Spell(note_names[a.v[1] + 1], accidentals[a.v[2] + 1]),
                        scale_pattern |-> scale_library[a.v[3] + 1],
                        chord_sequence |-> [k \in 1..prog_length |-> roman_options[d[k] + 1]],
                        beats_per_minute |-> options.min_bpm + d[prog_length + 1],
                        meter_numerator |-> time_sigs[d[prog_length + 2] + 1][1],
                        meter_denominator |-> time_sigs[d[prog_length + 2] + 1][2],
                        lowest_midi |-> low_note,
                        highest_midi |-> low_note + (14 + d[prog_length + 4]),
                        subdivision_unit |-> note_divisions[d[prog_length + 5] + 1],
                        total_measures |-> measure_counts[d[prog_length + 6] + 1]],
                 rng |-> b.rng] : b \in more} :
         a \in first}

----------------------------------------------------------------------------
(* note_utils.py *)

DURATION_VALUES == <<4000, 2000, 1000, 500, 250, 125>>
GRID_RESOLUTION == 125
FitEpsilon == 1

\* an alphabet without the 1/8-beat value
coarse_duration_values(beats_per_bar) == SubSeq(DURATION_VALUES, 1, Len(DURATION_VALUES) - 1)

get_discrete_duration_values(beats_per_bar) == DURATION_VALUES

\* round(): Python rounds a tie to the even neighbour
PyRound(num, den) ==
    LET q == num \div den
        r == num % den
    IN IF 2 * r < den THEN q
       ELSE IF 2 * r > den THEN q + 1
       ELSE IF q % 2 = 0 THEN q ELSE q + 1

snap_to_grid(beat_position) == PyRound(beat_position, GRID_RESOLUTION) * GRID_RESOLUTION

\* choose_duration whose fallback covers only half of what remains
choose_duration_half(remaining_beats, allowed_durations, r) ==
    LET valid == SelectSeq(allowed_durations, LAMBDA d : d <= remaining_beats + FitEpsilon)
    IN IF valid = <<>>
       THEN {[v |-> snap_to_grid(remaining_beats \div 2), snapped |-> TRUE, rng |-> r]}
       ELSE {[v |-> c.v, snapped |-> FALSE, rng |-> c.rng] : c \in choice(r, valid)}

\* choose_duration: v is the chosen duration, snapped tells the fallback was taken
choose_duration(remaining_beats, allowed_durations, r) ==
    LET valid == SelectSeq(allowed_durations, LAMBDA d : d <= remaining_beats + FitEpsilon)
    IN IF valid = <<>>
       THEN {[v |-> snap_to_grid(remaining_beats), snapped |-> TRUE, rng |-> r]}
       ELSE {[v |-> c.v, snapped |-> FALSE, rng |-> c.rng] : c \in choice(r, valid)}

NoteNames == {"C", "C#", "Db", "D", "D#", "Eb", "E", "Fb", "E#", "F", "F#", "Gb",
              "G", "G#", "Ab", "A", "A#", "Bb", "B", "Cb", "B#"}

note_map(n) ==
    CASE n \in {"C", "B#"} -> 0
      [] n \in {"C#", "Db"} -> 1
      [] n = "D" -> 2
      [] n \in {"D#", "Eb"} -> 3
      [] n \in {"E", "Fb"} -> 4
      [] n \in {"E#", "F"} -> 5
      [] n \in {"F#", "Gb"} -> 6
      [] n = "G" -> 7
      [] n \in {"G#", "Ab"} -> 8
      [] n = "A" -> 9
      [] n \in {"A#", "Bb"} -> 10
      [] n \in {"B", "Cb"} -> 11
      [] OTHER -> 0

note_name_to_midi(note_name, octave) ==
    LET midi_num == (octave + 1) * 12 + note_map(note_name)
    IN IF note_name = "B#" THEN midi_num + 12 ELSE midi_num

\* build_scale_pitch_set that looks at the reference octave and the next one only
build_scale_pitch_set_narrow(tonic_note, scale_pattern, lowest_midi, highest_midi) ==
    LET base_midi == note_name_to_midi(tonic_note, 4)
        allowed_pitches ==
            {base_midi + (octave_offset * 12) + scale_pattern[i] :
                octave_offset \in 0..1, i \in 1..Len(scale_pattern)}
    IN Sorted({c \in allowed_pitches : lowest_midi <= c /\ c <= highest_midi})

build_scale_pitch_set(tonic_note, scale_pattern, lowest_midi, highest_midi) ==
    LET base_midi == note_name_to_midi(tonic_note, 4)
        allowed_pitches ==
            {base_midi + (octave_offset * 12) + scale_pattern[i] :
                octave_offset \in (-3)..4, i \in 1..Len(scale_pattern)}
    IN Sorted({c \in allowed_pitches : lowest_midi <= c /\ c <= highest_midi})

is_pitch_in_scale(pitch, scale_pitches) == pitch \in Range(scale_pitches)

\* pick_scale_pitch: v is the pitch, jump the octave_jump flag
pick_scale_pitch(scale_pitches, previous_pitch, lowest_midi, highest_midi, octave_up_chance, r) ==
    LET normal(r1) ==
            LET uniform(r2) ==
                    {[v |-> c.v, jump |-> FALSE, rng |-> c.rng] : c \in choice(r2, scale_pitches)}
            IN IF previous_pitch # NoPitch /\ previous_pitch \in Range(scale_pitches)
               THEN LET prev_idx == IndexOf(scale_pitches, previous_pitch)
                        offsets == <<-2, -1, 1, 2>>
                        in_list == SelectSeq(offsets,
                                       LAMBDA o : 1 <= prev_idx + o /\ prev_idx + o <= Len(scale_pitches))
                        neighbors == [k \in 1..Len(in_list) |-> scale_pitches[prev_idx + in_list[k]]]
                    IN IF neighbors # <<>>
                       THEN UNION {IF b.v
                                   THEN {[v |-> c.v, jump |-> FALSE, rng |-> c.rng] :
                                            c \in choice(b.rng, neighbors)}
                                   ELSE uniform(b.rng) : b \in random_lt(r1, 60)}
                       ELSE uniform(r1)
               ELSE uniform(r1)
    IN IF previous_pitch # NoPitch
       THEN UNION {IF a.v /\ previous_pitch + 12 <= highest_midi - 2
                      /\ (previous_pitch + 12) \in Range(scale_pitches)
                      /\ previous_pitch + 12 <= highest_midi
                   THEN {[v |-> previous_pitch + 12, jump |-> TRUE, rng |-> a.rng]}
                   ELSE normal(a.rng) : a \in random_lt(r, octave_up_chance)}
       ELSE normal(r)

\* ensure_pitch_in_range
ensure_pitch_in_range(pitch, scale_pitches, lowest_midi, highest_midi, r) ==
    IF lowest_midi <= pitch /\ pitch <= highest_midi
    THEN {[v |-> pitch, rng |-> r]}
    ELSE LET valid == SelectSeq(scale_pitches, LAMBDA p : lowest_midi <= p /\ p <= highest_midi)
         IN IF valid # <<>>
            THEN choice(r, valid)
            ELSE {[v |-> Max2(lowest_midi, Min2(highest_midi, pitch)), rng |-> r]}

----------------------------------------------------------------------------
(* structure_utils.py *)

MotifTolerance == 10
NoneRng == [key |-> Unseeded, pos |-> -1]     \* rng=None

\* _apply_subtle_variation
apply_subtle_variation(ps, r) ==
    LET transpose(r1) ==
            {[v |-> [i \in 1..Len(ps) |-> IF ps[i] > 0 THEN Max2(0, ps[i] + o.v) ELSE 0],
              rng |-> o.rng] : o \in choice(r1, <<-2, -1, 1, 2>>)}
        neighbor(r1) ==
            IF Len(ps) > 1
            THEN UNION {IF ps[k.v + 1] > 0
                        THEN {[v |-> [ps EXCEPT ![k.v + 1] = @ + d.v], rng |-> d.rng] :
                                 d \in choice(k.rng, <<-1, 1>>)}
                        ELSE {[v |-> ps, rng |-> k.rng]} : k \in randint(r1, 0, Len(ps) - 1)}
            ELSE {[v |-> ps, rng |-> r1]}
        inverted[i \in 1..Len(ps)] ==
            IF i = 1 THEN ps[1]
            ELSE IF ps[i] > 0 THEN Max2(0, inverted[i - 1] - (ps[i] - ps[i - 1]))
            ELSE 0
        inversion(r1) ==
            IF Len(ps) < 2 THEN {[v |-> ps, rng |-> r1]}
            ELSE {[v |-> [i \in 1..Len(ps) |-> inverted[i]], rng |-> r1]}
    IN UNION {CASE t.v = "transpose" -> transpose(t.rng)
                [] t.v = "neighbor" -> neighbor(t.rng)
                [] t.v = "inversion" -> inversion(t.rng) :
              t \in choice(r, <<"transpose", "neighbor", "inversion">>)}

\* the loop without the test "repeat_idx == 0": the first copy may be varied too
RECURSIVE BuildRepeatsVaryAll(_, _, _, _, _, _)
BuildRepeatsVaryAll(unit_pitches, repeat_idx, num_repeats, allow_variation, variation_probability, r) ==
    IF repeat_idx >= num_repeats THEN {[v |-> <<>>, rng |-> r]}
    ELSE LET copies ==
                 IF ~allow_variation
                 THEN {[v |-> unit_pitches, rng |-> r]}
                 ELSE UNION {IF ~b.v
                             THEN {[v |-> unit_pitches, rng |-> b.rng]}
                             ELSE apply_subtle_variation(unit_pitches, b.rng) :
                             b \in random_lt(r, variation_probability)}
         IN UNION {{[v |-> c.v \o t.v, rng |-> t.rng] :
                      t \in BuildRepeatsVaryAll(unit_pitches, repeat_idx + 1, num_repeats,
                                                allow_variation, variation_probability, c.rng)} :
                   c \in copies}

\* the loop "for repeat_idx in range(num_repeats)" from repeat_idx on: the
\* pitches appended by it
RECURSIVE BuildRepeats(_, _, _, _, _, _)
BuildRepeats(unit_pitches, repeat_idx, num_repeats, allow_variation, variation_probability, r) ==
    IF repeat_idx >= num_repeats THEN {[v |-> <<>>, rng |-> r]}
    ELSE LET copies ==
                 IF repeat_idx = 0 \/ ~allow_variation
                 THEN {[v |-> unit_pitches, rng |-> r]}
                 ELSE UNION {IF ~b.v
                             THEN {[v |-> unit_pitches, rng |-> b.rng]}
                             ELSE apply_subtle_variation(unit_pitches, b.rng) :
                             b \in random_lt(r, variation_probability)}
         IN UNION {{[v |-> c.v \o t.v, rng |-> t.rng] :
                      t \in BuildRepeats(unit_pitches, repeat_idx + 1, num_repeats,
                                         allow_variation, variation_probability, c.rng)} :
                   c \in copies}

\* number of notes of the first unit: the loop appends notes while the beats
\* accumulated stay below repeat_unit_beats - 0.01 and notes are left
UnitLength(ds, repeat_unit_beats) ==
    LET reach == {k \in 0..Len(ds) : SumSeq(SubSeq(ds, 1, k)) >= repeat_unit_beats - MotifTolerance}
    IN IF reach = {} THEN Len(ds) ELSE SetMin(reach)

\* apply_motif_repetition: the set of possible [pitches, durations, rng]
apply_motif_repetition(ps, ds, repeat_unit_beats, allow_variation, variation_probability, r0) ==
    LET r == IF r0 = NoneRng THEN NewRandomUnseeded(0) ELSE r0
        same == {[pitches |-> ps, durations |-> ds, rng |-> r]}
    IN IF Len(ps) = 0 \/ repeat_unit_beats <= 0 THEN same
       ELSE LET n == UnitLength(ds, repeat_unit_beats)
                unit_pitches == SubSeq(ps, 1, n)
                unit_durations == SubSeq(ds, 1, n)
                total_beats == SumSeq(ds)
                num_repeats == total_beats \div repeat_unit_beats
            IN IF unit_pitches = <<>> \/ num_repeats < 2 THEN same
               ELSE {[pitches |-> Take(b.v, Len(ds)),
                      durations |-> Take(Repeat(unit_durations, num_repeats), Len(ds)),
                      rng |-> b.rng] :
                     b \in BuildRepeats(unit_pitches, 0, num_repeats, allow_variation,
                                        variation_probability, r)}

\* calculate_repeat_count
calculate_repeat_count(ps, ds, unit_beats) ==
    IF unit_beats <= 0 \/ ds = <<>> THEN 0 ELSE SumSeq(ds) \div unit_beats

----------------------------------------------------------------------------
(* generators/markov.py *)

WalkCount == 10
WalkLenLow == 6
WalkLenHigh == 10
FallbackPitch == 60

\* the scale the generators work on: the scale pitch set, the chromatic range
\* when it is empty
ScaleOf(spec) ==
    LET s == build_scale_pitch_set(spec.tonic_note, spec.scale_pattern,
                                   spec.lowest_midi, spec.highest_midi)
    IN IF s = <<>> THEN [i \in 1..(spec.highest_midi - spec.lowest_midi + 1) |->
                            spec.lowest_midi + i - 1]
       ELSE s

\* the training data has its real size when the streams are fixed; when every
\* stream is followed, the random walks are capped
Capped(size, cap) == IF fixed_streams THEN size ELSE Min2(size, cap)

\* pattern types 1-3 of _create_training_data
FixedPatterns(scale_notes) ==
    LET n == Len(scale_notes)
        asc(i) == SubSeq(scale_notes, i, i + 4)
        rev(s) == [k \in 1..Len(s) |-> s[Len(s) + 1 - k]]
        runs == [k \in 1..(2 * Max2(0, n - 5)) |->
                    IF k % 2 = 1 THEN asc((k + 1) \div 2) ELSE rev(asc(k \div 2))]
        arps == [k \in 1..(IF n - 8 <= 0 THEN 0 ELSE (n - 8 + 1) \div 2) |->
                    [j \in 1..4 |-> scale_notes[(2 * (k - 1) + 1) + 2 * (j - 1)]]]
        neigh == [c \in 1..Max2(0, n - 2) |->
                    <<scale_notes[c + 1], scale_notes[c + 2], scale_notes[c + 1],
                      scale_notes[c], scale_notes[c + 1]>>]
    IN runs \o arps \o neigh

\* one random walk from its first note on: the notes that follow walk's last
RECURSIVE WalkFrom(_, _, _, _)
WalkFrom(scale_notes, walk, more, r) ==
    IF more <= 0 THEN {[v |-> walk, rng |-> r]}
    ELSE LET current_idx == IndexOf(scale_notes, walk[Len(walk)])
         IN UNION {WalkFrom(scale_notes,
                            Append(walk, scale_notes[Max2(1, Min2(Len(scale_notes), current_idx + m.v))]),
                            more - 1, m.rng) :
                   m \in choice(r, <<-2, -1, 0, 1, 2>>)}

RECURSIVE Walks(_, _, _)
Walks(scale_notes, count, r) ==
    IF count <= 0 THEN {[v |-> <<>>, rng |-> r]}
    ELSE UNION {UNION {UNION {{[v |-> <<w.v>> \o rest.v, rng |-> rest.rng] :
                                 rest \in Walks(scale_notes, count - 1, w.rng)} :
                              w \in WalkFrom(scale_notes, <<s.v>>, len.v - 1, s.rng)} :
                       s \in choice(len.rng, scale_notes)} :
                len \in randint(r, Capped(WalkLenLow, MaxWalkLen), Capped(WalkLenHigh, MaxWalkLen))}

\* _create_training_data
create_training_data(spec, r) ==
    LET scale_notes == ScaleOf(spec)
    IN {[v |-> FixedPatterns(scale_notes) \o w.v, rng |-> w.rng] :
          w \in Walks(scale_notes, Capped(WalkCount, MaxWalks), r)}

\* PitchTransitionModel.train_from_patterns: the <<context, next_note>> entries
\* in the order they are appended
RECURSIVE train_from_patterns(_, _)
train_from_patterns(training_sequences, order) ==
    IF training_sequences = <<>> THEN <<>>
    ELSE LET sequence == Head(training_sequences)
         IN [idx \in 1..Max2(0, Len(sequence) - order) |->
                <<SubSeq(sequence, idx, idx + order - 1), sequence[idx + order]>>]
            \o train_from_patterns(Tail(training_sequences), order)

\* self.transitions[context]
Followers(table, context) ==
    LET hit == SelectSeq(table, LAMBDA e : e[1] = context)
    IN [k \in 1..Len(hit) |-> hit[k][2]]

\* the followers of every context, contexts in the dictionary's (insertion) order
RECURSIVE AllNotes(_, _)
AllNotes(table, rest) ==
    IF rest = <<>> THEN <<>>
    ELSE LET context == Head(rest)[1]
         IN Followers(table, context)
            \o AllNotes(table, SelectSeq(rest, LAMBDA e : e[1] # context))

\* PitchTransitionModel.predict_next
predict_next(table, context, r) ==
    IF Followers(table, context) # <<>> THEN choice(r, Followers(table, context))
    ELSE IF AllNotes(table, table) # <<>> THEN choice(r, AllNotes(table, table))
    ELSE {[v |-> FallbackPitch, rng |-> r]}

\* no quantization: the proposed pitch as it is
keep_proposed_pitch(pitch, scale_pitches) == pitch

\* _quantize_to_nearest_scale_note: min() keeps the first of equally near pitches
quantize_to_nearest_scale_note(pitch, scale_pitches) ==
    IF pitch \in Range(scale_pitches) THEN pitch
    ELSE LET best == SetMin({Abs(scale_pitches[i] - pitch) : i \in 1..Len(scale_pitches)})
         IN scale_pitches[SetMin({i \in 1..Len(scale_pitches) :
                                     Abs(scale_pitches[i] - pitch) = best})]

----------------------------------------------------------------------------
(* eval.py.  Python's floats are modelled as exact fractions [n, d]; a      *)
(* division by zero gives ZeroDivisionError, which every later operation    *)
(* hands on, as the exception would end the call.                           *)

RECURSIVE Gcd(_, _)
Gcd(a, b) == IF b = 0 THEN a ELSE Gcd(b, a % b)

ZeroDivisionError == [n |-> 0, d |-> 0]
Raised(x) == x.d = 0

\* n / d
Div(n, d) ==
    IF d = 0 THEN ZeroDivisionError
    ELSE LET g == Gcd(Abs(n), Abs(d))
             sgn == IF d < 0 THEN -1 ELSE 1
         IN [n |-> sgn * (n \div g), d |-> sgn * (d \div g)]

Num(k) == [n |-> k, d |-> 1]
Zero == Num(0)
One == Num(1)
Half == [n |-> 1, d |-> 2]

\* sums over the least common denominator, products after cancelling, and
\* comparisons by continued fractions keep the integers small
RAdd(x, y) == IF Raised(x) \/ Raised(y) THEN ZeroDivisionError
              ELSE LET g == Gcd(x.d, y.d)
                   IN Div(x.n * (y.d \div g) + y.n * (x.d \div g), (x.d \div g) * y.d)
RNeg(x) == [n |-> -x.n, d |-> x.d]
RSub(x, y) == RAdd(x, RNeg(y))
RMul(x, y) == IF Raised(x) \/ Raised(y) THEN ZeroDivisionError
              ELSE LET a == Div(x.n, y.d)
                       b == Div(y.n, x.d)
                   IN Div(a.n * b.n, a.d * b.d)
RDiv(x, y) == IF Raised(x) \/ Raised(y) THEN ZeroDivisionError
              ELSE RMul(x, Div(y.d, y.n))

\* the sign of a/b - c/d for positive b and d
RECURSIVE Compare(_, _, _, _)
Compare(a, b, c, d) ==
    LET qa == a \div b
        qc == c \div d
        ra == a % b
        rc == c % d
    IN IF qa # qc THEN (IF qa < qc THEN -1 ELSE 1)
       ELSE IF ra = 0 \/ rc = 0 THEN (IF ra = rc THEN 0 ELSE IF ra = 0 THEN -1 ELSE 1)
       ELSE Compare(d, rc, b, ra)

RLe(x, y) == Compare(x.n, x.d, y.n, y.d) <= 0
RLt(x, y) == Compare(x.n, x.d, y.n, y.d) < 0
RAbs(x) == [n |-> Abs(x.n), d |-> x.d]
RMin(x, y) == IF Raised(x) \/ Raised(y) THEN ZeroDivisionError ELSE IF RLe(x, y) THEN x ELSE y
RMax(x, y) == IF Raised(x) \/ Raised(y) THEN ZeroDivisionError ELSE IF RLe(y, x) THEN x ELSE y

RECURSIVE RSum(_)
RSum(s) == IF s = <<>> THEN Zero ELSE RAdd(Head(s), RSum(Tail(s)))

\* [abs(midi_notes[i+1] - midi_notes[i]) for i in range(len(midi_notes)-1)]
Jumps(midi_notes) ==
    [i \in 1..(Len(midi_notes) - 1) |-> Abs(midi_notes[i + 1] - midi_notes[i])]

compute_interval_complexity(midi_notes) ==
    IF Len(midi_notes) < 2 THEN Zero
    ELSE LET jumps == Jumps(midi_notes)
         IN IF jumps = <<>> THEN Zero
            ELSE LET unique_intervals == Cardinality(Range(jumps))
                     max_possible == Min2(12, Len(jumps))
                 IN Div(unique_intervals, Max2(max_possible, 1))

measure_contour_balance(midi_notes) ==
    IF Len(midi_notes) < 2 THEN Half
    ELSE LET up_moves == Cardinality({i \in 1..(Len(midi_notes) - 1) :
                                         midi_notes[i + 1] > midi_notes[i]})
             down_moves == Cardinality({i \in 1..(Len(midi_notes) - 1) :
                                           midi_notes[i + 1] < midi_notes[i]})
             total_moves == up_moves + down_moves
         IN IF total_moves = 0 THEN Zero
            ELSE Div(Min2(up_moves, down_moves), total_moves)

MaxJump == 7

check_leap_smoothness(midi_notes) ==
    IF Len(midi_notes) < 2 THEN One
    ELSE LET jumps == Jumps(midi_notes)
             violations == Cardinality({i \in 1..Len(jumps) : jumps[i] > MaxJump})
         IN RSub(One, Div(violations, Len(jumps)))

assess_pitch_variety(midi_notes) ==
    IF midi_notes = <<>> THEN Zero
    ELSE RMin(Div(Cardinality(Range(midi_notes)), 7), One)

evaluate_rhythmic_entropy(ds) ==
    IF Len(ds) < 2 THEN Zero
    ELSE RMin(Div(Cardinality(Range(ds)), 5), One)

PhraseLen == 4

compute_phrase_coherence(midi_notes) ==
    IF Len(midi_notes) < PhraseLen * 2 THEN Half
    ELSE LET count == ((Len(midi_notes) - PhraseLen) \div PhraseLen) + 1
             phrases == [k \in 1..count |->
                            SubSeq(midi_notes, (k - 1) * PhraseLen + 1, k * PhraseLen)]
             pairs == {<<i, j>> \in (1..count) \X (1..count) : i < j}
             matches == Cardinality({pr \in pairs : phrases[pr[1]] = phrases[pr[2]]})
             comparisons == Cardinality(pairs)
         IN IF count < 2 \/ comparisons = 0 THEN Half
            ELSE Div(matches, comparisons)


\* the units of measure_self_similarity: the loop over zip(midi_notes, durations)
\* from position k on, with the unit and the beats collected so far
RECURSIVE SimilarityUnits(_, _, _, _, _)
SimilarityUnits(midi_notes, ds, unit_beats, k, current_unit) ==
    IF k > Min2(Len(midi_notes), Len(ds)) THEN <<>>
    ELSE LET unit == Append(current_unit.notes, midi_notes[k])
             beats == current_unit.beats + ds[k]
         IN IF beats >= unit_beats - MotifTolerance
            THEN <<unit>> \o SimilarityUnits(midi_notes, ds, unit_beats, k + 1,
                                             [notes |-> <<>>, beats |-> 0])
            ELSE SimilarityUnits(midi_notes, ds, unit_beats, k + 1,
                                 [notes |-> unit, beats |-> beats])

measure_self_similarity(midi_notes, ds, unit_beats) ==
    IF Len(midi_notes) < 2 \/ unit_beats <= 0 THEN Zero
    ELSE LET units == SimilarityUnits(midi_notes, ds, unit_beats, 1,
                                      [notes |-> <<>>, beats |-> 0])
             similarity(i) ==
                 LET unit_a == units[i]
                     unit_b == units[i + 1]
                     min_len == Min2(Len(unit_a), Len(unit_b))
                 IN IF unit_a = unit_b THEN One
                    ELSE IF min_len = 0 THEN Zero
                    ELSE Div(Cardinality({j \in 1..min_len : unit_a[j] = unit_b[j]}), min_len)
             similarities == [i \in 1..(Len(units) - 1) |-> similarity(i)]
         IN IF Len(units) < 2 THEN Zero
            ELSE IF similarities = <<>> THEN Zero
            ELSE RDiv(RSum(similarities), Num(Len(similarities)))

\* measure_rhythm_profile_alignment; target_profile is the list of the
\* dictionary's <<duration, proportion>> items, proportions in percent
measure_rhythm_profile_alignment(ds, target_profile) ==
    IF ds = <<>> \/ target_profile = <<>> THEN Zero
    ELSE LET keys == [i \in 1..Len(target_profile) |-> target_profile[i][1]]
             total_count == Len(ds)
             \* min(keys, key=|d - dur|): the first of the nearest keys
             nearest(dur) ==
                 LET best == SetMin({Abs(keys[i] - dur) : i \in 1..Len(keys)})
                 IN keys[SetMin({i \in 1..Len(keys) : Abs(keys[i] - dur) = best})]
             actual_count(d) == Cardinality({k \in 1..Len(ds) : nearest(ds[k]) = d})
             target_prop(d) == Div(target_profile[IndexOf(keys, d)][2], 100)
             actual_prop(d) == Div(actual_count(d), total_count)
             all_durations == Sorted(Range(keys))
             differences == [k \in 1..Len(all_durations) |->
                                RAbs(RSub(target_prop(all_durations[k]),
                                          actual_prop(all_durations[k])))]
             similarity == RSub(One, RDiv(RSum(differences), Num(2)))
         IN RMax(Zero, RMin(One, similarity))

\* the default weights of aggregate_melody_score, in hundredths
DefaultWeights(k) ==
    CASE k = "complexity" -> 15
      [] k = "contour" -> 20
      [] k = "smoothness" -> 25
      [] k = "variety" -> 20
      [] k = "rhythm" -> 10
      [] k = "coherence" -> 10
      [] k = "self_similarity" -> 15
      [] k = "rhythm_alignment" -> 15

BaseMetrics == <<"complexity", "contour", "smoothness", "variety", "rhythm", "coherence">>

\* the keys of the metrics dictionary, in insertion order
MetricKeys(spec) ==
    BaseMetrics
    \o (IF spec.present /\ spec.repeat_unit_beats # 0 THEN <<"self_similarity">> ELSE <<>>)
    \o (IF spec.present /\ spec.rhythm_profile # <<>> THEN <<"rhythm_alignment">> ELSE <<>>)

\* aggregate_melody_score(midi_notes, durations, structure_spec=spec) with
\* the default weights: [total, metrics], total ZeroDivisionError if it raises
aggregate_melody_score(midi_notes, ds, spec) ==
    LET keys == MetricKeys(spec)
        metrics == [k \in Range(keys) |->
            CASE k = "complexity" -> compute_interval_complexity(midi_notes)
              [] k = "contour" -> measure_contour_balance(midi_notes)
              [] k = "smoothness" -> check_leap_smoothness(midi_notes)
              [] k = "variety" -> assess_pitch_variety(midi_notes)
              [] k = "rhythm" -> evaluate_rhythmic_entropy(ds)
              [] k = "coherence" -> compute_phrase_coherence(midi_notes)
              [] k = "self_similarity" ->
                    measure_self_similarity(midi_notes, ds, spec.repeat_unit_beats)
              [] k = "rhythm_alignment" ->
                    measure_rhythm_profile_alignment(ds, spec.rhythm_profile)]
        total_weight == SumSeq([i \in 1..Len(keys) |-> DefaultWeights(keys[i])])
        normalized_weights(k) ==
            IF total_weight > 0 THEN Div(DefaultWeights(k), total_weight)
            ELSE Div(DefaultWeights(k), 100)
        total == RSum([i \in 1..Len(keys) |-> RMul(metrics[keys[i]], normalized_weights(keys[i]))])
    IN [total |-> total, metrics |-> metrics]

----------------------------------------------------------------------------
(* The generators as state machines: one action per loop iteration *)

NoStructure ==
    [present |-> FALSE, repeat_unit_beats |-> 0, rhythm_profile |-> <<>>,
     allow_motif_variation |-> FALSE, variation_probability |-> 0]

\* beats_per_bar = meter_numerator * (4.0 / meter_denominator)
BeatsPerBar(spec) == spec.meter_numerator * (4000 \div spec.meter_denominator)
TotalBeats(spec) == BeatsPerBar(spec) * spec.total_measures

ProfileActive == structure_spec.present /\ structure_spec.rhythm_profile # <<>>
ProfileKeys == [i \in 1..Len(structure_spec.rhythm_profile) |-> structure_spec.rhythm_profile[i][1]]
ProfileWeights == [i \in 1..Len(structure_spec.rhythm_profile) |-> structure_spec.rhythm_profile[i][2]]

\* allowed_durations left at the alphabet when a rhythm profile is given
GridDurations == get_discrete_duration_values(BeatsPerBar(harmony_spec))

\* allowed_durations of generate_random_melody
AllowedDurations ==
    IF ProfileActive THEN ProfileKeys
    ELSE get_discrete_duration_values(BeatsPerBar(harmony_spec))

InitialDebugStats ==
    [scale_out_rejections |-> 0, octave_up_events |-> 0, total_beats |-> 0, repeat_count |-> 0]

cli_vars == <<args, seed, attempt, cli_pc, warned, attempt_log>>
request_vars == <<fixed_streams, harmony_spec, built_scale, generation_config, structure_spec,
                  method>>
eval_vars == <<eval_in, eval_out>>
scored_vars == <<scored_pc, trial, candidates, score, combined_debug_stats, scored_log>>

\* generate_random_melody up to the loop
StartRandom(rng_seed) ==
    /\ rng' = NewRandom(rng_seed)
    /\ pitches' = <<>>
    /\ durations' = <<>>
    /\ elapsed_beats' = 0
    /\ debug_stats' = InitialDebugStats
    /\ snap_fallbacks' = 0
    /\ transitions' = <<>>
    /\ gen_pc' = "loop"

\* the duration of one iteration of generate_random_melody
RandomDuration(remaining, r) ==
    IF ProfileActive
    THEN UNION {IF c.v > remaining + FitEpsilon
                THEN choose_duration(remaining, AllowedDurations, c.rng)
                ELSE {[v |-> c.v, snapped |-> FALSE, rng |-> c.rng]} :
                c \in choices(r, ProfileKeys, ProfileWeights)}
    ELSE choose_duration(remaining, AllowedDurations, r)

\* the pitch of one iteration of generate_random_melody
RandomPitch(r) ==
    LET scale_pitches == ScaleOf(harmony_spec)
        prev_pitch == IF pitches # <<>> /\ pitches[Len(pitches)] # 0
                      THEN pitches[Len(pitches)] ELSE NoPitch
    IN UNION {IF rest.v
              THEN {[v |-> 0, jump |-> FALSE, rng |-> rest.rng]}
              ELSE UNION {{[v |-> e.v, jump |-> pk.jump, rng |-> e.rng] :
                             e \in ensure_pitch_in_range(pk.v, scale_pitches,
                                       harmony_spec.lowest_midi, harmony_spec.highest_midi, pk.rng)} :
                          pk \in pick_scale_pitch(scale_pitches, prev_pitch,
                                       harmony_spec.lowest_midi, harmony_spec.highest_midi,
                                       generation_config.octave_up_chance, rest.rng)} :
              rest \in random_lt(r, generation_config.rest_probability)}

\* one iteration of "while elapsed_beats < total_beats" of generate_random_melody
RandomIteration ==
    /\ gen_pc = "loop"
    /\ method \in {"random", "scored"}
    /\ elapsed_beats < TotalBeats(harmony_spec)
    /\ elapsed_beats > 0 \/ Len(durations) < MaxStuckNotes
    /\ \E d \in RandomDuration(TotalBeats(harmony_spec) - elapsed_beats, rng) :
         \E p \in RandomPitch(d.rng) :
            /\ pitches' = Append(pitches, p.v)
            /\ durations' = Append(durations, d.v)
            /\ elapsed_beats' = snap_to_grid(elapsed_beats + d.v)
            /\ debug_stats' = [debug_stats EXCEPT
                                  !.octave_up_events = IF p.jump THEN @ + 1 ELSE @]
            /\ snap_fallbacks' = IF d.snapped THEN snap_fallbacks + 1 ELSE snap_fallbacks
            /\ rng' = p.rng
    /\ UNCHANGED <<gen_pc, transitions, first_result>>
    /\ UNCHANGED <<cli_vars, request_vars, eval_vars, scored_vars>>
    /\ UNCHANGED hydral_vars

\* apply_motif_repetition called without rng=: it makes its own random.Random()
UnseededStructureRng(r) == NoneRng

\* the rng generate_random_melody hands to apply_motif_repetition
StructureRng(r) == r

\* generate_random_melody after the loop: structure, final stats, return
RandomFinish ==
    /\ gen_pc = "loop"
    /\ method \in {"random", "scored"}
    /\ ~(elapsed_beats < TotalBeats(harmony_spec))
    /\ IF structure_spec.present /\ structure_spec.repeat_unit_beats # 0
       THEN \E o \in apply_motif_repetition(pitches, durations,
                         structure_spec.repeat_unit_beats,
                         structure_spec.allow_motif_variation,
                         structure_spec.variation_probability, StructureRng(rng)) :
               /\ pitches' = o.pitches
               /\ durations' = o.durations
               /\ rng' = IF StructureRng(rng) = rng THEN o.rng ELSE rng
               /\ debug_stats' = [debug_stats EXCEPT
                                     !.repeat_count = calculate_repeat_count(o.pitches,
                                          o.durations, structure_spec.repeat_unit_beats),
                                     !.total_beats = SumSeq(o.durations)]
       ELSE /\ debug_stats' = [debug_stats EXCEPT !.total_beats = SumSeq(durations)]
            /\ UNCHANGED <<pitches, durations, rng>>
    /\ gen_pc' = "done"
    /\ UNCHANGED <<elapsed_beats, snap_fallbacks, transitions, first_result>>
    /\ UNCHANGED <<cli_vars, request_vars, eval_vars, scored_vars>>
    /\ UNCHANGED hydral_vars

\* the first model_order pitches of generate_markov_melody
RECURSIVE SeedPitches(_, _, _)
SeedPitches(scale_notes, count, r) ==
    IF count <= 0 THEN {[v |-> <<>>, rng |-> r]}
    ELSE UNION {{[v |-> <<c.v>> \o rest.v, rng |-> rest.rng] :
                   rest \in SeedPitches(scale_notes, count - 1, c.rng)} :
                c \in choice(r, scale_notes)}

\* generate_markov_melody up to the loop: training and the starting context
StartMarkov(rng_seed) ==
    /\ \E t \in create_training_data(harmony_spec, NewRandom(rng_seed)) :
         \E s \in SeedPitches(ScaleOf(harmony_spec), generation_config.ngram_order, t.rng) :
            /\ transitions' = train_from_patterns(t.v, generation_config.ngram_order)
            /\ pitches' = s.v
            /\ rng' = s.rng
    /\ durations' = <<>>
    /\ elapsed_beats' = 0
    /\ debug_stats' = InitialDebugStats
    /\ snap_fallbacks' = 0
    /\ gen_pc' = "loop"

\* pitches[-n:]
LastN(s, n) == IF n = 0 \/ n >= Len(s) THEN s ELSE SubSeq(s, Len(s) - n + 1, Len(s))

\* one iteration of "while elapsed_beats < total_beats" of generate_markov_melody
MarkovIteration ==
    /\ gen_pc = "loop"
    /\ method = "markov"
    /\ elapsed_beats < TotalBeats(harmony_spec)
    /\ LET scale_notes == ScaleOf(harmony_spec)
           total_beats == TotalBeats(harmony_spec)
       IN \E d \in choose_duration(total_beats - elapsed_beats,
                       get_discrete_duration_values(BeatsPerBar(harmony_spec)), rng) :
            /\ durations' = Append(durations, d.v)
            /\ elapsed_beats' = snap_to_grid(elapsed_beats + d.v)
            /\ snap_fallbacks' = IF d.snapped THEN snap_fallbacks + 1 ELSE snap_fallbacks
            /\ IF snap_to_grid(elapsed_beats + d.v) < total_beats
               THEN \E n \in predict_next(transitions,
                                 LastN(pitches, generation_config.ngram_order), d.rng) :
                      LET quantized == IF n.v \notin Range(scale_notes)
                                       THEN quantize_to_nearest_scale_note(n.v, scale_notes)
                                       ELSE n.v
                      IN \E e \in ensure_pitch_in_range(quantized, scale_notes,
                                     harmony_spec.lowest_midi, harmony_spec.highest_midi, n.rng) :
                           /\ pitches' = Append(pitches, e.v)
                           /\ rng' = e.rng
                           /\ debug_stats' = [debug_stats EXCEPT !.scale_out_rejections =
                                                 IF n.v \notin Range(scale_notes) THEN @ + 1 ELSE @]
               ELSE /\ rng' = d.rng
                    /\ UNCHANGED <<pitches, debug_stats>>
    /\ UNCHANGED <<gen_pc, transitions, first_result>>
    /\ UNCHANGED <<cli_vars, request_vars, eval_vars, scored_vars>>
    /\ UNCHANGED hydral_vars

\* generate_markov_melody after the loop: truncate, final stats, return
MarkovFinish ==
    /\ gen_pc = "loop"
    /\ method = "markov"
    /\ ~(elapsed_beats < TotalBeats(harmony_spec))
    /\ pitches' = Take(pitches, Len(durations))
    /\ debug_stats' = [debug_stats EXCEPT !.total_beats = SumSeq(durations)]
    /\ gen_pc' = "done"
    /\ UNCHANGED <<durations, rng, elapsed_beats, snap_fallbacks, transitions, first_result>>
    /\ UNCHANGED <<cli_vars, request_vars, eval_vars, scored_vars>>
    /\ UNCHANGED hydral_vars

\* generate_scored_melody up to the candidate loop
StartScored ==
    /\ candidates' = <<>>
    /\ trial' = 0
    /\ score' = Zero
    /\ combined_debug_stats' = InitialDebugStats
    /\ scored_log' = <<>>
    /\ scored_pc' = "loop"

\* candidate seeds that start one step above the base seed
trial_seed_above(rng_seed, n) == rng_seed + (n + 1) * 1000

\* trial_seed = rng_seed + attempt * 1000
trial_seed(rng_seed, n) == rng_seed + n * 1000

\* "for attempt in range(num_candidates)": the call of generate_random_melody
ScoredTrial ==
    /\ scored_pc = "loop"
    /\ trial < generation_config.candidate_count
    /\ StartRandom(trial_seed(seed, trial))
    /\ scored_pc' = "candidate"
    /\ UNCHANGED <<trial, candidates, score, combined_debug_stats, scored_log, first_result>>
    /\ UNCHANGED <<cli_vars, request_vars, eval_vars>>
    /\ UNCHANGED hydral_vars

\* valid_durations of generate_scored_melody
ValidDurations ==
    Range(get_discrete_duration_values(BeatsPerBar(harmony_spec)))
    \cup (IF ProfileActive THEN Range(ProfileKeys) ELSE {})

\* the checks of the candidate loop on the melody just generated
Validated ==
    LET scale_pitches == build_scale_pitch_set(harmony_spec.tonic_note,
                             harmony_spec.scale_pattern, harmony_spec.lowest_midi,
                             harmony_spec.highest_midi)
    IN /\ \A i \in 1..Len(pitches) :
             pitches[i] > 0 => is_pitch_in_scale(pitches[i], scale_pitches)
       /\ \A i \in 1..Len(durations) :
             \E vd \in ValidDurations : Abs(durations[i] - vd) < FitEpsilon
       /\ Len(Sounding(pitches)) >= 4

\* history entry for the melody just generated: its seed, whether the
\* candidate loop's checks pass on it, and its score
LogEntry(kind) ==
    [kind |-> kind, seed |-> rng.key, pitches |-> pitches, durations |-> durations,
     validated |-> Validated,
     score |-> aggregate_melody_score(Sounding(pitches), durations, structure_spec).total]

\* the rest of one iteration of the candidate loop: validation and scoring
ScoredValidate ==
    /\ scored_pc = "candidate"
    /\ gen_pc = "done"
    /\ LET scale_pitches == build_scale_pitch_set(harmony_spec.tonic_note,
                                harmony_spec.scale_pattern, harmony_spec.lowest_midi,
                                harmony_spec.highest_midi)
           scale_violation == \E i \in 1..Len(pitches) :
                                 pitches[i] > 0 /\ ~is_pitch_in_scale(pitches[i], scale_pitches)
           invalid_duration == \E i \in 1..Len(durations) :
                                  ~\E vd \in ValidDurations : Abs(durations[i] - vd) < FitEpsilon
           sounding_notes == Sounding(pitches)
           scored == aggregate_melody_score(sounding_notes, durations, structure_spec)
           min_acceptable == Div(generation_config.score_threshold, 100)
       IN IF scale_violation
          THEN /\ combined_debug_stats' =
                     [combined_debug_stats EXCEPT !.scale_out_rejections = @ + 1]
               /\ scored_pc' = "loop"
               /\ UNCHANGED candidates
          ELSE IF invalid_duration \/ Len(sounding_notes) < 4
          THEN /\ scored_pc' = "loop"
               /\ UNCHANGED <<candidates, combined_debug_stats>>
          ELSE IF Raised(scored.total)
          THEN /\ scored_pc' = "raised"
               /\ UNCHANGED <<candidates, combined_debug_stats>>
          ELSE /\ candidates' =
                     IF RLe(min_acceptable, scored.total)
                     THEN Append(candidates, [pitches |-> pitches, durations |-> durations,
                                              score |-> scored.total, debug_stats |-> debug_stats])
                     ELSE candidates
               /\ scored_pc' = "loop"
               /\ UNCHANGED combined_debug_stats
    /\ scored_log' = Append(scored_log, LogEntry("candidate"))
    /\ trial' = trial + 1
    /\ gen_pc' = "idle"
    /\ UNCHANGED <<score, rng, transitions, pitches, durations, elapsed_beats, debug_stats,
                   snap_fallbacks, first_result>>
    /\ UNCHANGED <<cli_vars, request_vars, eval_vars>>
    /\ UNCHANGED hydral_vars

\* the fallback call made whether or not a candidate was kept
ScoredFallbackAlways ==
    /\ scored_pc = "loop"
    /\ ~(trial < generation_config.candidate_count)
    /\ StartRandom(seed)
    /\ scored_pc' = "fallback"
    /\ UNCHANGED <<trial, candidates, score, combined_debug_stats, scored_log, first_result>>
    /\ UNCHANGED <<cli_vars, request_vars, eval_vars>>
    /\ UNCHANGED hydral_vars

\* "if not candidates": one more call of generate_random_melody, base seed
ScoredFallback ==
    /\ scored_pc = "loop"
    /\ ~(trial < generation_config.candidate_count)
    /\ candidates = <<>>
    /\ StartRandom(seed)
    /\ scored_pc' = "fallback"
    /\ UNCHANGED <<trial, candidates, score, combined_debug_stats, scored_log, first_result>>
    /\ UNCHANGED <<cli_vars, request_vars, eval_vars>>
    /\ UNCHANGED hydral_vars

\* the fallback melody is scored and returned whatever it is
ScoredFallbackReturn ==
    /\ scored_pc = "fallback"
    /\ gen_pc = "done"
    /\ LET scored == aggregate_melody_score(Sounding(pitches), durations, structure_spec)
       IN /\ score' = scored.total
          /\ scored_pc' = IF Raised(scored.total) THEN "raised" ELSE "done"
    /\ combined_debug_stats' = [combined_debug_stats EXCEPT
           !.octave_up_events = @ + debug_stats.octave_up_events,
           !.total_beats = debug_stats.total_beats,
           !.repeat_count = debug_stats.repeat_count]
    /\ scored_log' = Append(scored_log, LogEntry("fallback"))
    /\ gen_pc' = "idle"
    /\ UNCHANGED <<trial, candidates, rng, transitions, pitches, durations, elapsed_beats,
                   debug_stats, snap_fallbacks, first_result>>
    /\ UNCHANGED <<cli_vars, request_vars, eval_vars>>
    /\ UNCHANGED hydral_vars

\* candidates[0] without the sort
FirstCandidate(cs) == cs[1]

\* candidates.sort(key=score, reverse=True)[0]: the sort is stable, so the
\* first of the candidates with the highest score
BestCandidate(cs) ==
    cs[SetMin({i \in 1..Len(cs) : \A j \in 1..Len(cs) : RLe(cs[j].score, cs[i].score)})]

\* the best candidate is returned
ScoredSelect ==
    /\ scored_pc = "loop"
    /\ ~(trial < generation_config.candidate_count)
    /\ candidates # <<>>
    /\ LET best == BestCandidate(candidates)
       IN /\ pitches' = best.pitches
          /\ durations' = best.durations
          /\ score' = best.score
          /\ combined_debug_stats' = [combined_debug_stats EXCEPT
                 !.octave_up_events =
                     @ + SumSeq([i \in 1..Len(candidates) |->
                                    candidates[i].debug_stats.octave_up_events]),
                 !.total_beats = best.debug_stats.total_beats,
                 !.repeat_count = best.debug_stats.repeat_count]
    /\ scored_pc' = "done"
    /\ UNCHANGED <<trial, candidates, scored_log, gen_pc, rng, transitions, elapsed_beats, debug_stats,
                   snap_fallbacks, first_result>>
    /\ UNCHANGED <<cli_vars, request_vars, eval_vars>>
    /\ UNCHANGED hydral_vars

----------------------------------------------------------------------------
(* Requests: the inputs the generators are run on *)

\* HarmonySpec(...) with one chord, 120 BPM and sixteenth-note subdivision
Harmony(tonic, pattern, low, high, num, den, measures) ==
    [tonic_note |-> tonic, scale_pattern |-> pattern, chord_sequence |-> <<"I">>,
     beats_per_minute |-> 120, meter_numerator |-> num, meter_denominator |-> den,
     lowest_midi |-> low, highest_midi |-> high, subdivision_unit |-> 4,
     total_measures |-> measures]

\* C ionian on [60, 62] (scale 60, 62) and a one-note pattern on [60, 74]
\* (scale 60, 72, which leaves room for an octave jump), in 1/32 metre
RandomHarmonies ==
    {Harmony("C", ionian, 60, 62, 1, 32, m) : m \in 1..MaxMeasures}
    \cup {Harmony("C", <<0>>, 60, 74, 1, 32, m) : m \in 1..MaxMeasures}

\* D ionian on [60, 62] (scale 61, 62; the fallback pitch 60 is outside it)
MarkovHarmonies == {Harmony("D", ionian, 60, 62, 1, 32, m) : m \in 1..MaxMarkovMeasures}

Config(rest, octave, order, count, threshold) ==
    [rest_probability |-> rest, octave_up_chance |-> octave, ngram_order |-> order,
     candidate_count |-> count, score_threshold |-> threshold]

\* the defaults of config.get(...)
DefaultConfig == Config(15, 3, 2, 10, 30)

Structure(unit, profile, allow, prob) ==
    [present |-> TRUE, repeat_unit_beats |-> unit, rhythm_profile |-> profile,
     allow_motif_variation |-> allow, variation_probability |-> prob]

Structures ==
    {NoStructure,
     Structure(250, <<>>, FALSE, 0),
     Structure(250, <<>>, TRUE, 50),
     Structure(250, <<>>, TRUE, 100),
     Structure(0, <<<<300, 50>>, <<500, 50>>>>, FALSE, 0),
     Structure(0, <<<<250, 75>>, <<500, 25>>>>, FALSE, 0),
     Structure(0, <<<<50, 100>>>>, FALSE, 0),
     Structure(250, <<<<1000, 100>>>>, FALSE, 0)}

Request(h, c, s, m) == [harmony |-> h, config |-> c, structure |-> s, method |-> m]

\* octave_up_chance 1.0: the octave jump is taken whenever there is room for it
AlwaysJump == Config(15, 100, 1, 10, 30)

\* the one-note pattern on [60, 74]: from 60 there is room for the jump to 72
JumpHarmonies == {Harmony("C", <<0>>, 60, 74, 1, 32, m) : m \in 1..MaxMarkovMeasures}

RandomRequests ==
    {Request(h, DefaultConfig, s, "random") : h \in RandomHarmonies, s \in Structures}
    \cup {Request(h, AlwaysJump, NoStructure, "random") : h \in JumpHarmonies}

\* the Markov generator of the source takes no structure_spec
MarkovRequests ==
    {Request(h, Config(15, 3, o, 10, 30), NoStructure, "markov") : h \in MarkovHarmonies, o \in {1, 2}}
    \cup {Request(h, AlwaysJump, NoStructure, "markov") : h \in JumpHarmonies}

\* Requests at the size of the command line's, run with fixed streams: C major
\* over an octave in two 4/4 bars, one 7/16 bar (a profile of quarter notes
\* leaves a 0.75-beat tail), D dorian over 20 semitones in four 7/8 bars
FullHarmonies ==
    {Harmony("C", ionian, 60, 72, 4, 4, 2),
     Harmony("C", ionian, 60, 72, 7, 16, 1),
     Harmony("D", dorian, 57, 76, 7, 8, 4)}

FullStructures ==
    {NoStructure,
     Structure(0, <<<<1000, 100>>>>, FALSE, 0),
     Structure(2000, <<>>, FALSE, 0),
     Structure(4000, <<>>, TRUE, 50),
     Structure(500, <<<<1000, 100>>>>, FALSE, 0)}

FullRandomRequests ==
    {Request(h, DefaultConfig, s, "random") : h \in FullHarmonies, s \in FullStructures}

FullMarkovRequests ==
    {Request(h, Config(15, 3, o, 10, 30), NoStructure, "markov") :
        h \in FullHarmonies, o \in {1, 2, 12}}

ScoredRequests ==
    {Request(h, Config(15, 3, 2, n, t), s, "scored") :
        h \in FullHarmonies \ {Harmony("D", dorian, 57, 76, 7, 8, 4)},
        s \in FullStructures, n \in 0..MaxCandidates, t \in {30, 60}}

NoTarget == -1      \* args.mean_pitch_target is None

NoArgs ==
    [mean_pitch_target |-> NoTarget, mean_pitch_tolerance |-> 0, max_attempts |-> 1,
     harmony_config |-> DefaultOptions]

\* the harmony the command line would choose for the seed, under the defaults
ChosenRequests(s) ==
    {Request(h.v, DefaultConfig, NoStructure, m) :
        h \in choose_harmony(s, DefaultOptions), m \in {"random", "markov"}}

NoEval == [midi_notes |-> <<>>, durations |-> <<>>]
NoScore == [total |-> Zero, metrics |-> <<>>]
NoResult == [harmony |-> <<>>, pitches |-> <<>>, durations |-> <<>>]

\* run_pipeline is not called
InitRunnerIdle ==
    /\ input_files = <<>>
    /\ file_idx = 0
    /\ disk = {}
    /\ file_trace = <<>>
    /\ file_failed = FALSE
    /\ step_fingerprints = <<>>
    /\ report = <<>>

\* no pipeline is run
InitPipelineIdle ==
    /\ InitRunnerIdle
    /\ steps = <<>>
    /\ ctx = <<>>
    /\ step_idx = 0
    /\ pipe_pc = "idle"
    /\ run_log = <<>>

\* ensure_metadata is not called
InitMetadataIdle ==
    /\ sidecar = <<>>
    /\ meta_pc = "idle"
    /\ call_log = <<>>

InitRequest(req) ==
    /\ harmony_spec = req.harmony
    /\ generation_config = req.config
    /\ structure_spec = req.structure
    /\ method = req.method

InitGenerator ==
    /\ gen_pc = "idle"
    /\ built_scale = <<>>
    /\ rng = NewRandom(0)
    /\ transitions = <<>>
    /\ pitches = <<>>
    /\ durations = <<>>
    /\ elapsed_beats = 0
    /\ debug_stats = InitialDebugStats
    /\ snap_fallbacks = 0
    /\ scored_pc = "idle"
    /\ trial = 0
    /\ candidates = <<>>
    /\ score = Zero
    /\ combined_debug_stats = InitialDebugStats
    /\ scored_log = <<>>

----------------------------------------------------------------------------
(* Spec: one direct call of a generator *)

Init ==
    /\ \/ /\ fixed_streams = FALSE
          /\ seed = 0
          /\ \E req \in RandomRequests \cup MarkovRequests : InitRequest(req)
       \/ /\ fixed_streams = TRUE
          /\ seed \in 0..MaxSeed
          /\ \E req \in FullRandomRequests \cup FullMarkovRequests \cup ScoredRequests
                         \cup ChosenRequests(seed) : InitRequest(req)
    /\ InitGenerator
    /\ args = NoArgs
    /\ attempt = 0
    /\ cli_pc = "caller"
    /\ warned = FALSE
    /\ attempt_log = <<>>
    /\ first_result = NoResult
    /\ eval_in = NoEval
    /\ eval_out = NoScore
    /\ InitPipelineIdle
    /\ InitMetadataIdle

\* generate_random_melody(spec, seed, config, structure_spec)
CallRandom ==
    /\ cli_pc = "caller"
    /\ gen_pc = "idle"
    /\ method = "random"
    /\ StartRandom(seed)
    /\ UNCHANGED <<first_result, cli_vars, request_vars, eval_vars, scored_vars>>
    /\ UNCHANGED hydral_vars

\* generate_markov_melody(spec, seed, config)
CallMarkov ==
    /\ cli_pc = "caller"
    /\ gen_pc = "idle"
    /\ method = "markov"
    /\ StartMarkov(seed)
    /\ UNCHANGED <<first_result, cli_vars, request_vars, eval_vars, scored_vars>>
    /\ UNCHANGED hydral_vars

\* generate_scored_melody(spec, seed, config, structure_spec)
CallScored ==
    /\ cli_pc = "caller"
    /\ scored_pc = "idle"
    /\ method = "scored"
    /\ StartScored
    /\ UNCHANGED <<gen_pc, rng, transitions, pitches, durations, elapsed_beats, debug_stats,
                   snap_fallbacks, first_result>>
    /\ UNCHANGED <<cli_vars, request_vars, eval_vars>>
    /\ UNCHANGED hydral_vars

Next ==
    \/ CallRandom
    \/ CallMarkov
    \/ CallScored
    \/ RandomIteration
    \/ RandomFinish
    \/ MarkovIteration
    \/ MarkovFinish
    \/ ScoredTrial
    \/ ScoredValidate
    \/ ScoredFallback
    \/ ScoredFallbackReturn
    \/ ScoredSelect

Spec == Init /\ [][Next]_vars

----------------------------------------------------------------------------
(* Properties of the melodies the generators return (Spec) *)

RandomReturned == method \in {"random", "scored"} /\ gen_pc = "done"
MarkovReturned == method = "markov" /\ gen_pc = "done"
ScoredReturned == scored_pc = "done"
Returned == RandomReturned \/ MarkovReturned \/ ScoredReturned

HarmonyScale ==
    build_scale_pitch_set(harmony_spec.tonic_note, harmony_spec.scale_pattern,
                          harmony_spec.lowest_midi, harmony_spec.highest_midi)

\* C2: every melody returned by the Random, Scored and Markov generators has as
\* many pitches as durations.
C2_LengthsEqual == Returned => Len(pitches) = Len(durations)

\* a Markov melody whose seeded context was longer than the melody: the cut acted
C2_Witness ==
    /\ MarkovReturned
    /\ generation_config.ngram_order > Len(durations)
    /\ Len(pitches) = Len(durations)

SumTolerance == 10

\* C3: the durations of a returned melody never add up to more than
\* total_measures x beats_per_bar (plus a tolerance of 0.01 beats), with or
\* without motif repetition and rhythm profile.
C3_SumWithinTotal ==
    Returned => SumSeq(durations) <= TotalBeats(harmony_spec) + SumTolerance

\* a melody rebuilt by motif repetition from on-grid durations is longer than
\* the bars it was generated for
C3_Overshoot ==
    /\ RandomReturned
    /\ structure_spec.present
    /\ structure_spec.repeat_unit_beats > 0
    /\ structure_spec.rhythm_profile = <<>>
    /\ SumSeq(durations) >= TotalBeats(harmony_spec) + GRID_RESOLUTION

\* C4: without a StructureSpec the Random and Markov loops fill the bars
\* exactly: the snap fallback of choose_duration is never taken, and on return
\* the durations are positive and add up to total_measures x beats_per_bar.
C4_ExactFill ==
    ~structure_spec.present =>
        /\ snap_fallbacks = 0
        /\ (RandomReturned \/ MarkovReturned) =>
              /\ SumSeq(durations) = TotalBeats(harmony_spec)
              /\ \A i \in 1..Len(durations) : durations[i] > 0

\* a Random melody of several notes that fills its bars
C4_Witness ==
    /\ ~structure_spec.present
    /\ method = "random"
    /\ gen_pc = "done"
    /\ Len(durations) >= 3
    /\ SumSeq(durations) = TotalBeats(harmony_spec)

\* C5: every sounding pitch of a melody returned by the Random or Scored
\* generator is in the scale pitch set of the HarmonySpec, whatever the
\* StructureSpec.
C5_PitchesInScale ==
    (RandomReturned \/ ScoredReturned) =>
        \A i \in 1..Len(pitches) : pitches[i] > 0 => is_pitch_in_scale(pitches[i], HarmonyScale)

\* a varied motif copy left the scale
C5_OutOfScale ==
    /\ RandomReturned
    /\ structure_spec.allow_motif_variation
    /\ \E i \in 1..Len(pitches) : pitches[i] > 0 /\ ~is_pitch_in_scale(pitches[i], HarmonyScale)

\* C6: every pitch the Markov generator holds or returns is in the scale pitch
\* set, also when the transition table is empty and pitch 60 is proposed.
C6_MarkovInScale ==
    method = "markov" =>
        \A i \in 1..Len(pitches) : is_pitch_in_scale(pitches[i], HarmonyScale)

\* a returned Markov melody with a pitch predicted from an empty table, the
\* proposed fallback pitch being outside the scale
C6_Witness ==
    /\ MarkovReturned
    /\ transitions = <<>>
    /\ ~is_pitch_in_scale(FallbackPitch, HarmonyScale)
    /\ debug_stats.scale_out_rejections > 0
    /\ Len(pitches) > generation_config.ngram_order

\* the alphabet, and the keys of the rhythm profile when one is active
DurationAlphabet ==
    Range(DURATION_VALUES) \cup (IF ProfileActive THEN Range(ProfileKeys) ELSE {})

\* C7: every duration but the last is in the alphabet or the profile's key
\* set, and once choose_duration has returned its snapped fallback the loop
\* adds no further duration.
C7_OnlyTailOffAlphabet ==
    /\ \A i \in 1..(Len(durations) - 1) : durations[i] \in DurationAlphabet
    /\ snap_fallbacks <= 1
    /\ (snap_fallbacks = 1 /\ gen_pc = "loop") => ~(elapsed_beats < TotalBeats(harmony_spec))

\* a returned melody whose last duration is a snapped value outside the alphabet
C7_Witness ==
    /\ Returned
    /\ snap_fallbacks = 1
    /\ Len(durations) >= 2
    /\ durations[Len(durations)] \notin DurationAlphabet

\* the pitch sounding at time t of a melody
PitchAtTime(ps, ds, t) == ps[SetMin({i \in 1..Len(ds) : SumSeq(SubSeq(ds, 1, i)) > t})]

\* the pitches of the k-th segment of unit beats, read on the duration grid
SegmentPattern(ps, ds, unit, k) ==
    [j \in 1..(unit \div GRID_RESOLUTION) |->
        PitchAtTime(ps, ds, (k - 1) * unit + (j - 1) * GRID_RESOLUTION)]

\* every full segment of unit beats has the pitch pattern of the first
SegmentsRepeat(ps, ds, unit) ==
    \A k \in 2..(SumSeq(ds) \div unit) :
        SegmentPattern(ps, ds, unit, k) = SegmentPattern(ps, ds, unit, 1)

\* C9: motif repetition without variation, on a sequence in which at least two
\* repeats fit, returns a melody whose pitch pattern in every segment of
\* repeat_unit_beats beats equals that of the first segment.
C9_SegmentsRepeat ==
    [][(/\ gen_pc = "loop"
        /\ gen_pc' = "done"
        /\ method \in {"random", "scored"}
        /\ structure_spec.present
        /\ structure_spec.repeat_unit_beats > 0
        /\ structure_spec.rhythm_profile = <<>>
        /\ ~structure_spec.allow_motif_variation
        /\ SumSeq(durations) \div structure_spec.repeat_unit_beats >= 2)
       => SegmentsRepeat(pitches', durations', structure_spec.repeat_unit_beats)]_vars

\* a rebuilt melody whose second segment differs from its first
C9_Misaligned ==
    /\ RandomReturned
    /\ structure_spec.present
    /\ structure_spec.repeat_unit_beats > 0
    /\ structure_spec.rhythm_profile = <<>>
    /\ ~structure_spec.allow_motif_variation
    /\ debug_stats.repeat_count >= 2
    /\ ~SegmentsRepeat(pitches, durations, structure_spec.repeat_unit_beats)

----------------------------------------------------------------------------
(* SpecEval: aggregate_melody_score called directly *)

EvalPitches == {60, 62, 71}
EvalDurations == {250, 500}

\* the sequences over S of at most n elements
SeqsUpTo(S, n) == UNION {[1..k -> S] : k \in 0..n}

\* 60, 61, 59, 62, 58, ...: n notes whose successive intervals are 1, 2, 3, ...
Zigzag(n) == [i \in 1..n |-> IF i % 2 = 0 THEN 60 + (i \div 2) ELSE 60 - (i \div 2)]

\* the zigzags in even quarter notes; the longest spans 13 semitones
ZigzagInputs ==
    {[midi_notes |-> Zigzag(n), durations |-> [i \in 1..n |-> 1000]] : n \in 4..MaxZigzagNotes}

\* the second profile's proportions are 1.0 and 1.0
EvalStructures ==
    {NoStructure,
     Structure(500, <<<<250, 50>>, <<500, 50>>>>, FALSE, 0),
     Structure(0, <<<<250, 100>>, <<500, 100>>>>, FALSE, 0)}

InitEval ==
    /\ fixed_streams = FALSE
    /\ seed = 0
    /\ harmony_spec = Harmony("C", ionian, 60, 72, 4, 4, 1)
    /\ generation_config = DefaultConfig
    /\ structure_spec \in EvalStructures
    /\ method = "random"
    /\ InitGenerator
    /\ args = NoArgs
    /\ attempt = 0
    /\ cli_pc = "evaluate"
    /\ warned = FALSE
    /\ attempt_log = <<>>
    /\ first_result = NoResult
    /\ eval_in \in {[midi_notes |-> ps, durations |-> ds] :
                      ps \in SeqsUpTo(EvalPitches, MaxEvalNotes),
                      ds \in SeqsUpTo(EvalDurations, MaxEvalNotes)}
                   \cup ZigzagInputs
    /\ eval_out = NoScore
    /\ InitPipelineIdle
    /\ InitMetadataIdle

\* aggregate_melody_score(midi_notes, durations, structure_spec=structure_spec)
Evaluate ==
    /\ cli_pc = "evaluate"
    /\ eval_out' = aggregate_melody_score(eval_in.midi_notes, eval_in.durations, structure_spec)
    /\ cli_pc' = IF Raised(aggregate_melody_score(eval_in.midi_notes, eval_in.durations,
                                                  structure_spec).total)
                 THEN "raised" ELSE "evaluated"
    /\ UNCHANGED <<eval_in, args, attempt_log, seed, attempt, warned, first_result, gen_pc, rng, transitions,
                   pitches, durations, elapsed_beats, debug_stats, snap_fallbacks>>
    /\ UNCHANGED <<request_vars, scored_vars>>
    /\ UNCHANGED hydral_vars

NextEval == Evaluate

SpecEval == InitEval /\ [][NextEval]_vars

\* C8: aggregate_melody_score of an empty sounding-pitch list returns without
\* raising, and the contour-balance metric is 0 for an empty and for a
\* single-note sounding sequence.
C8_EmptyGraceful ==
    /\ (eval_in.midi_notes = <<>>) => cli_pc # "raised"
    /\ (cli_pc = "evaluated" /\ Len(eval_in.midi_notes) <= 1)
          => eval_out.metrics["contour"] = Zero

\* the score of an empty sequence is returned with contour-balance 0.5
C8_NeutralContour ==
    /\ cli_pc = "evaluated"
    /\ eval_in.midi_notes = <<>>
    /\ eval_in.durations # <<>>
    /\ eval_out.metrics["contour"] = Half

-----------------------------------------------------------------------------
(* pitch_stats.py and the retry loop of generate_and_save (SpecCli) *)

\* calculate_mean_pitch: <<>> is None, <<m>> the mean of the sounding notes
calculate_mean_pitch(midi_notes) ==
    LET sounding_notes == Sounding(midi_notes)
    IN IF sounding_notes = <<>> THEN <<>>
       ELSE <<Div(SumSeq(sounding_notes), Len(sounding_notes))>>

\* the comparison with the bounds excluded
check_pitch_constraint_strict(midi_notes, target_pitch, tolerance) ==
    LET mean_pitch == calculate_mean_pitch(midi_notes)
    IN IF mean_pitch = <<>> THEN FALSE
       ELSE /\ ~RLe(mean_pitch[1], RSub(target_pitch, tolerance))
            /\ ~RLe(RAdd(target_pitch, tolerance), mean_pitch[1])

\* check_pitch_constraint; target_pitch and tolerance are rationals
check_pitch_constraint(midi_notes, target_pitch, tolerance) ==
    LET mean_pitch == calculate_mean_pitch(midi_notes)
    IN IF mean_pitch = <<>> THEN FALSE
       ELSE /\ RLe(RSub(target_pitch, tolerance), mean_pitch[1])
            /\ RLe(mean_pitch[1], RAdd(target_pitch, tolerance))

\* get_pitch_stats(pitches)["mean"]
get_pitch_stats_mean(midi_notes) == calculate_mean_pitch(midi_notes)

\* --mean-pitch-target and --mean-pitch-tolerance are kept in tenths of a semitone
TargetOf(a) == Div(a.mean_pitch_target, 10)
ToleranceOf(a) == Div(a.mean_pitch_tolerance, 10)

\* targets 60.0, 61.0, 66.0 and tolerances 0.5, 2.0, 6.0: halves, at which the
\* float sums and differences of check_pitch_constraint are exact
PitchTargets == {600, 610, 660}
PitchTolerances == {5, 20, 60}

CliArgs ==
    {[mean_pitch_target |-> t, mean_pitch_tolerance |-> tol, max_attempts |-> m,
      harmony_config |-> DefaultOptions] :
        t \in {NoTarget} \cup PitchTargets, tol \in PitchTolerances, m \in 1..MaxAttempts}

\* C ionian on [60, 62]: the means of the sounding notes lie in [60, 62]
CliRequests ==
    {Request(Harmony("C", ionian, 60, 62, 1, 32, m), DefaultConfig, s, "random") :
        m \in 1..MaxCliMeasures, s \in {NoStructure, Structure(250, <<>>, TRUE, 50)}}

\* generate_and_save after choose_harmony(seed, harmony_config), before the loop
InitCli ==
    /\ args \in CliArgs
    /\ \/ /\ fixed_streams = FALSE
          /\ seed = 0
          /\ \E req \in CliRequests : InitRequest(req)
       \/ /\ fixed_streams = TRUE
          /\ seed \in 0..MaxSeed
          /\ \E h \in choose_harmony(seed, args.harmony_config) :
                InitRequest(Request(h.v, DefaultConfig, NoStructure, "random"))
    /\ InitGenerator
    /\ attempt = 0
    /\ cli_pc = "loop"
    /\ warned = FALSE
    /\ attempt_log = <<>>
    /\ first_result = NoResult
    /\ eval_in = NoEval
    /\ eval_out = NoScore
    /\ InitPipelineIdle
    /\ InitMetadataIdle

\* every attempt generating with the base seed
attempt_seed_base(base, n) == base

\* attempt_seed = seed + attempt - 1
attempt_seed(base, n) == base + n - 1

\* while attempt < args.max_attempts: attempt += 1; generate_melody_midi(...,
\* seed + attempt - 1, ...) up to the generator's loop
CliAttempt ==
    /\ cli_pc = "loop"
    /\ attempt < args.max_attempts
    /\ attempt' = attempt + 1
    /\ StartRandom(attempt_seed(seed, attempt'))
    /\ attempt_log' = Append(attempt_log, [seed |-> rng'.key, verdict |-> "pending"])
    /\ cli_pc' = "generating"
    /\ UNCHANGED <<args, seed, warned, first_result, request_vars, eval_vars, scored_vars>>
    /\ UNCHANGED hydral_vars

\* the rest of generate_melody_midi and the branch of the loop on its result
CliCheck ==
    /\ cli_pc = "generating"
    /\ gen_pc = "done"
    /\ gen_pc' = "idle"
    /\ score' = IF Sounding(pitches) # <<>>
                THEN aggregate_melody_score(Sounding(pitches), durations, structure_spec).total
                ELSE Zero
    /\ cli_pc' = IF args.mean_pitch_target = NoTarget THEN "after_loop"
                 ELSE IF /\ get_pitch_stats_mean(pitches) # <<>>
                         /\ check_pitch_constraint(pitches, TargetOf(args), ToleranceOf(args))
                      THEN "after_loop"
                      ELSE "loop"
    /\ attempt_log' = [attempt_log EXCEPT ![Len(attempt_log)].verdict =
                           IF cli_pc' = "after_loop" THEN "accepted" ELSE "rejected"]
    /\ UNCHANGED <<args, seed, attempt, warned, first_result, request_vars, eval_vars,
                   scored_pc, trial, candidates, combined_debug_stats, scored_log, rng, transitions,
                   pitches, durations, elapsed_beats, debug_stats, snap_fallbacks>>
    /\ UNCHANGED hydral_vars

\* the loop condition fails
CliLoopExit ==
    /\ cli_pc = "loop"
    /\ ~(attempt < args.max_attempts)
    /\ cli_pc' = "after_loop"
    /\ UNCHANGED <<args, attempt_log, seed, attempt, warned, first_result, request_vars, eval_vars,
                   scored_vars, gen_pc, rng, transitions, pitches, durations, elapsed_beats,
                   debug_stats, snap_fallbacks>>
    /\ UNCHANGED hydral_vars

\* after the loop: the warning, then the melody is saved
CliFinish ==
    /\ cli_pc = "after_loop"
    /\ warned' = (args.mean_pitch_target # NoTarget /\ attempt >= args.max_attempts)
    /\ cli_pc' = "saved"
    /\ UNCHANGED <<args, attempt_log, seed, attempt, first_result, request_vars, eval_vars,
                   scored_vars, gen_pc, rng, transitions, pitches, durations, elapsed_beats,
                   debug_stats, snap_fallbacks>>
    /\ UNCHANGED hydral_vars

NextCli ==
    \/ CliAttempt
    \/ RandomIteration
    \/ RandomFinish
    \/ CliCheck
    \/ CliLoopExit
    \/ CliFinish

SpecCli == InitCli /\ [][NextCli]_vars

ConstraintMet == check_pitch_constraint(pitches, TargetOf(args), ToleranceOf(args))

\* C10: with a target set, the retry loop ends in exactly one of two ways:
\* the melody it returns has its sounding-pitch mean within the tolerance of
\* the target, or it has run exactly max_attempts attempts and returns the
\* last melody with the signal that the constraint was not met.
C10_OneOutcome ==
    (cli_pc = "saved" /\ args.mean_pitch_target # NoTarget)
        => (ConstraintMet /\ ~warned) \/ (~ConstraintMet /\ warned /\ attempt = args.max_attempts)

\* the last permitted attempt meets the constraint and the warning is printed
C10_MetAndWarned ==
    /\ cli_pc = "saved"
    /\ args.mean_pitch_target # NoTarget
    /\ ConstraintMet
    /\ warned
    /\ attempt = args.max_attempts

-----------------------------------------------------------------------------
(* Two calls with identical inputs (SpecDet) *)

DetRequests(s) ==
    FullRandomRequests \cup FullMarkovRequests \cup ScoredRequests \cup ChosenRequests(s)
    \cup {Request(Harmony("C", ionian, 60, 72, 4, 4, 2), DefaultConfig, NoStructure, "harmony")}

\* options of choose_harmony: the defaults, a tempo pinned to 120 BPM, and
\* the bag of test_bars_option_4_4_time with its "bars" entry
DetOptions ==
    {DefaultOptions, [min_bpm |-> 120, max_bpm |-> 120],
     [min_bpm |-> 100, max_bpm |-> 120, bars |-> 3]}

\* what a call returns: the HarmonySpec of choose_harmony, or (pitches, durations)
Result == [harmony |-> harmony_spec, pitches |-> pitches, durations |-> durations]

InitDet ==
    /\ fixed_streams = TRUE
    /\ seed \in 0..MaxSeed
    /\ \E req \in DetRequests(seed) : InitRequest(req)
    /\ args \in {[NoArgs EXCEPT !.harmony_config = o] :
                    o \in IF method = "harmony" THEN DetOptions ELSE {DefaultOptions}}
    /\ InitGenerator
    /\ attempt = 0
    /\ cli_pc = "call"
    /\ warned = FALSE
    /\ attempt_log = <<>>
    /\ first_result = NoResult
    /\ eval_in = NoEval
    /\ eval_out = NoScore
    /\ InitPipelineIdle
    /\ InitMetadataIdle

\* choose_harmony(seed, options)
DetChooseHarmony ==
    /\ cli_pc = "call"
    /\ method = "harmony"
    /\ \E h \in choose_harmony(seed, args.harmony_config) : harmony_spec' = h.v
    /\ attempt' = attempt + 1
    /\ cli_pc' = "returned"
    /\ UNCHANGED <<fixed_streams, built_scale, generation_config, structure_spec, method, args,
                   attempt_log, seed, warned, first_result, eval_vars, scored_vars, gen_pc, rng, transitions, pitches,
                   durations, elapsed_beats, debug_stats, snap_fallbacks>>
    /\ UNCHANGED hydral_vars

\* generate_random_melody(spec, seed, config, structure_spec)
DetCallRandom ==
    /\ cli_pc = "call"
    /\ method = "random"
    /\ StartRandom(seed)
    /\ attempt' = attempt + 1
    /\ cli_pc' = "running"
    /\ UNCHANGED <<args, attempt_log, seed, warned, first_result, request_vars, eval_vars, scored_vars>>
    /\ UNCHANGED hydral_vars

\* generate_markov_melody(spec, seed, config)
DetCallMarkov ==
    /\ cli_pc = "call"
    /\ method = "markov"
    /\ StartMarkov(seed)
    /\ attempt' = attempt + 1
    /\ cli_pc' = "running"
    /\ UNCHANGED <<args, attempt_log, seed, warned, first_result, request_vars, eval_vars, scored_vars>>
    /\ UNCHANGED hydral_vars

\* generate_scored_melody(spec, seed, config, structure_spec)
DetCallScored ==
    /\ cli_pc = "call"
    /\ method = "scored"
    /\ StartScored
    /\ attempt' = attempt + 1
    /\ cli_pc' = "running"
    /\ UNCHANGED <<args, attempt_log, seed, warned, first_result, request_vars, eval_vars, gen_pc, rng,
                   transitions, pitches, durations, elapsed_beats, debug_stats, snap_fallbacks>>
    /\ UNCHANGED hydral_vars

DetReturned ==
    \/ cli_pc = "returned"
    \/ cli_pc = "running" /\ method \in {"random", "markov"} /\ gen_pc = "done"
    \/ cli_pc = "running" /\ method = "scored" /\ scored_pc = "done"

\* the caller keeps what the first call returned and calls again
DetRecord ==
    /\ DetReturned
    /\ attempt = 1
    /\ first_result' = Result
    /\ cli_pc' = "call"
    /\ gen_pc' = "idle"
    /\ scored_pc' = "idle"
    /\ UNCHANGED <<args, attempt_log, seed, attempt, warned, request_vars, eval_vars, trial, candidates,
                   score, combined_debug_stats, scored_log, rng, transitions, pitches,
                   durations, elapsed_beats, debug_stats, snap_fallbacks>>
    /\ UNCHANGED hydral_vars

\* the second call has returned
DetCompare ==
    /\ DetReturned
    /\ attempt = 2
    /\ cli_pc' = "compared"
    /\ UNCHANGED <<args, attempt_log, seed, attempt, warned, first_result, request_vars, eval_vars,
                   scored_vars, gen_pc, rng, transitions, pitches, durations, elapsed_beats,
                   debug_stats, snap_fallbacks>>
    /\ UNCHANGED hydral_vars

NextDet ==
    \/ DetChooseHarmony
    \/ DetCallRandom
    \/ DetCallMarkov
    \/ DetCallScored
    \/ RandomIteration
    \/ RandomFinish
    \/ MarkovIteration
    \/ MarkovFinish
    \/ ScoredTrial
    \/ ScoredValidate
    \/ ScoredFallback
    \/ ScoredFallbackReturn
    \/ ScoredSelect
    \/ DetRecord
    \/ DetCompare

SpecDet == InitDet /\ [][NextDet]_vars

\* C1: two calls of the same generation strategy with identical seed, config
\* and HarmonySpec return identical (pitches, durations), and two calls of
\* choose_harmony with the same seed and options return the same HarmonySpec.
C1_Deterministic == (cli_pc = "compared") => Result = first_result

\* both calls of a generator that varies its motif repetitions have returned
C1_Witness ==
    /\ cli_pc = "compared"
    /\ structure_spec.present
    /\ structure_spec.allow_motif_variation
    /\ Len(first_result.pitches) >= 4

\* both calls of choose_harmony have returned
C1_HarmonyCompared ==
    /\ cli_pc = "compared"
    /\ method = "harmony"
    /\ first_result.harmony.total_measures \in Range(measure_counts)

-----------------------------------------------------------------------------
(* Ordering of the retry loop of generate_and_save (SpecCli) *)

\* the condition on which the loop breaks
Accepts(ps) ==
    \/ args.mean_pitch_target = NoTarget
    \/ /\ get_pitch_stats_mean(ps) # <<>>
       /\ check_pitch_constraint(ps, TargetOf(args), ToleranceOf(args))

LoopLeft == cli_pc \in {"after_loop", "saved"}

\* C14: the k-th generation of the retry loop (k = 0, 1, ...) uses seed
\* base_seed + k; a generation whose melody is accepted is the last one, so
\* the melody used is that of the smallest accepted k; with no target exactly
\* one generation, with the base seed, is performed whatever max_attempts is;
\* there are never more than max_attempts generations.
C14_RetryOrdering ==
    /\ Len(attempt_log) = attempt
    /\ attempt <= args.max_attempts
    /\ \A i \in 1..Len(attempt_log) : attempt_log[i].seed = seed + (i - 1)
    /\ \A i \in 1..(Len(attempt_log) - 1) : attempt_log[i].verdict = "rejected"
    /\ LoopLeft =>
          /\ attempt >= 1
          /\ rng.key = attempt_log[attempt].seed
          /\ attempt_log[attempt].verdict = (IF Accepts(pitches) THEN "accepted" ELSE "rejected")
          /\ attempt_log[attempt].verdict = "rejected" => attempt = args.max_attempts
    /\ (LoopLeft /\ args.mean_pitch_target = NoTarget) =>
          attempt_log = <<[seed |-> seed, verdict |-> "accepted"]>>

\* the first melody was rejected and the second accepted and saved
C14_Witness ==
    /\ cli_pc = "saved"
    /\ args.mean_pitch_target # NoTarget
    /\ Len(attempt_log) = 2
    /\ attempt_log[1].verdict = "rejected"
    /\ attempt_log[2].verdict = "accepted"
    /\ attempt_log[2].seed = seed + 1

----------------------------------------------------------------------------
(* The acceptance predicate of the retry loop (SpecCli) *)

\* ps has a sounding note and target - tolerance <= mean <= target + tolerance,
\* target and tolerance in tenths of a semitone, compared without division
WithinTolerance(ps, target10, tolerance10) ==
    LET sounding == Sounding(ps)
    IN /\ sounding # <<>>
       /\ (target10 - tolerance10) * Len(sounding) <= 10 * SumSeq(sounding)
       /\ 10 * SumSeq(sounding) <= (target10 + tolerance10) * Len(sounding)

\* C15: check_pitch_constraint is True exactly when there is a sounding note
\* and the mean of the sounding notes lies between target - tolerance and
\* target + tolerance, both bounds included, rests left out of the mean; and
\* with a target set the retry loop accepts no melody without sounding notes.
C15_AcceptanceExact ==
    /\ \A t \in PitchTargets, tol \in PitchTolerances :
          check_pitch_constraint(pitches, Div(t, 10), Div(tol, 10))
              <=> WithinTolerance(pitches, t, tol)
    /\ (/\ args.mean_pitch_target # NoTarget
        /\ attempt_log # <<>>
        /\ attempt_log[Len(attempt_log)].verdict = "accepted")
          => Sounding(pitches) # <<>>

\* a melody with a rest whose mean is exactly target + tolerance was accepted
C15_Witness ==
    /\ cli_pc = "saved"
    /\ args.mean_pitch_target # NoTarget
    /\ attempt_log[Len(attempt_log)].verdict = "accepted"
    /\ \E i \in 1..Len(pitches) : pitches[i] = 0
    /\ 10 * SumSeq(Sounding(pitches)) =
          (args.mean_pitch_target + args.mean_pitch_tolerance) * Len(Sounding(pitches))

\* a melody of rests only was generated with a target set, and not accepted
C15_AllRestsRejected ==
    /\ cli_pc = "saved"
    /\ args.mean_pitch_target # NoTarget
    /\ pitches # <<>>
    /\ Sounding(pitches) = <<>>
    /\ attempt_log[Len(attempt_log)].verdict = "rejected"

----------------------------------------------------------------------------
(* Ranges of the evaluation metrics (SpecEval) *)

InUnit(x) == RLe(Zero, x) /\ RLe(x, One)

\* the normalized weights of the metrics present, in order
NormalizedWeights(spec) ==
    LET keys == MetricKeys(spec)
        total_weight == SumSeq([i \in 1..Len(keys) |-> DefaultWeights(keys[i])])
    IN [i \in 1..Len(keys) |-> Div(DefaultWeights(keys[i]), total_weight)]

\* C16: every metric aggregate_melody_score returns lies in [0, 1], the
\* metrics are exactly the six base metrics plus self_similarity and
\* rhythm_alignment with a structure, the normalized weights over them sum to
\* 1, and the aggregate lies in [0, 1].
C16_MetricsInUnit ==
    cli_pc = "evaluated" =>
        /\ DOMAIN eval_out.metrics = Range(MetricKeys(structure_spec))
        /\ \A k \in DOMAIN eval_out.metrics : InUnit(eval_out.metrics[k])
        /\ RSum(NormalizedWeights(structure_spec)) = One
        /\ InUnit(eval_out.total)

\* fourteen notes with thirteen different intervals: complexity 13/12
C16_ComplexityAboveOne ==
    /\ cli_pc = "evaluated"
    /\ Len(eval_in.midi_notes) = 14
    /\ SetMax(Range(eval_in.midi_notes)) - SetMin(Range(eval_in.midi_notes)) <= 24
    /\ eval_out.metrics["complexity"] = Div(13, 12)

----------------------------------------------------------------------------
(* Scaling of the rhythm profile (SpecEval) *)

ScaleFactors == {2, 3}

\* the profile with every proportion multiplied by c
ScaleProfile(profile, c) ==
    [i \in 1..Len(profile) |-> <<profile[i][1], c * profile[i][2]>>]

ProfileProportions(profile) == [i \in 1..Len(profile) |-> profile[i][2]]

\* every duration of ds is a key of the profile, and the share of each key
\* among ds is its proportion divided by the sum of the proportions
MatchesNormalized(ds, profile) ==
    /\ ds # <<>>
    /\ \A k \in 1..Len(ds) : \E i \in 1..Len(profile) : ds[k] = profile[i][1]
    /\ \A i \in 1..Len(profile) :
          Cardinality({k \in 1..Len(ds) : ds[k] = profile[i][1]})
              * SumSeq(ProfileProportions(profile))
          = profile[i][2] * Len(ds)

\* C17: multiplying every proportion of the rhythm profile by the same
\* positive constant changes neither the duration rng.choices picks for any
\* draw nor the rhythm-alignment score, and durations whose shares equal the
\* normalized profile score alignment 1 whatever the proportions sum to.
C17_ScaleInvariant ==
    (cli_pc = "evaluated" /\ structure_spec.rhythm_profile # <<>>) =>
        LET profile == structure_spec.rhythm_profile
        IN /\ \A c \in ScaleFactors :
                /\ measure_rhythm_profile_alignment(eval_in.durations, ScaleProfile(profile, c))
                      = eval_out.metrics["rhythm_alignment"]
                /\ \A raw \in 0..(RawRange - 1) :
                      choices_pick(raw, ProfileProportions(ScaleProfile(profile, c)))
                          = choices_pick(raw, ProfileProportions(profile))
           /\ MatchesNormalized(eval_in.durations, profile) =>
                 eval_out.metrics["rhythm_alignment"] = One

\* proportions 1.0 and 1.0, one eighth and one sixteenth note: alignment 1/2
C17_UnnormalizedHalf ==
    /\ cli_pc = "evaluated"
    /\ structure_spec.rhythm_profile # <<>>
    /\ SumSeq(ProfileProportions(structure_spec.rhythm_profile)) # 100
    /\ MatchesNormalized(eval_in.durations, structure_spec.rhythm_profile)
    /\ eval_out.metrics["rhythm_alignment"] = Half

----------------------------------------------------------------------------
(* The first copy of the motif (Spec) *)

\* apply_motif_repetition is about to rebuild the melody: there is a motif
\* and it fits at least twice
RepetitionApplied ==
    /\ structure_spec.present
    /\ structure_spec.repeat_unit_beats > 0
    /\ pitches # <<>>
    /\ UnitLength(durations, structure_spec.repeat_unit_beats) > 0
    /\ SumSeq(durations) \div structure_spec.repeat_unit_beats >= 2

\* C18: when apply_motif_repetition rebuilds the melody, the first copy in
\* the output is the original motif, pitches and durations, whatever
\* allow_variation and variation_probability are (1.0 included); every copy,
\* a last one cut short by the trim as far as it goes, has the motif's
\* durations; and without variation every copy has the motif's pitches.
C18_FirstCopyOriginal ==
    [][(/\ gen_pc = "loop"
        /\ gen_pc' = "done"
        /\ method \in {"random", "scored"}
        /\ RepetitionApplied)
       => LET n == UnitLength(durations, structure_spec.repeat_unit_beats)
          IN /\ Len(pitches') = Len(durations')
             /\ Len(pitches') >= n
             /\ SubSeq(pitches', 1, n) = SubSeq(pitches, 1, n)
             /\ SubSeq(durations', 1, n) = SubSeq(durations, 1, n)
             /\ \A i \in 1..Len(durations') : durations'[i] = durations[((i - 1) % n) + 1]
             /\ ~structure_spec.allow_motif_variation =>
                   \A i \in 1..Len(pitches') : pitches'[i] = pitches[((i - 1) % n) + 1]
      ]_vars

\* variation_probability 1.0: a melody of at least two copies of the motif
\* was returned whose second copy differs from the first
C18_Witness ==
    /\ RandomReturned
    /\ structure_spec.present
    /\ structure_spec.allow_motif_variation
    /\ structure_spec.variation_probability = 100
    /\ debug_stats.repeat_count >= 2
    /\ LET n == UnitLength(durations, structure_spec.repeat_unit_beats)
       IN /\ Len(pitches) >= 2 * n
          /\ \E i \in 1..n : pitches[n + i] # pitches[i]

----------------------------------------------------------------------------
(* Properties of generate_scored_melody (Spec) *)

\* the validated, non-sparse candidates of the call, by their place in the log
ValidatedCandidates ==
    {i \in 1..Len(scored_log) : scored_log[i].kind = "candidate" /\ scored_log[i].validated}

MinAcceptable == Div(generation_config.score_threshold, 100)

\* the returned score is the greatest score of the validated candidates
ReturnsBestValidated ==
    /\ \A i \in ValidatedCandidates : RLe(scored_log[i].score, score)
    /\ \E i \in ValidatedCandidates : scored_log[i].score = score

\* C11 (as stated): for every seed, candidate_count >= 1 and score_threshold,
\* the score generate_scored_melody returns is the maximum of the scores of
\* the validated, non-sparse candidates.
C11_MaxOfValidated ==
    (ScoredReturned /\ ValidatedCandidates # {}) => ReturnsBestValidated

\* C11 (amended): when some validated, non-sparse candidate scores at least
\* score_threshold, the returned score is the maximum of the scores of the
\* validated, non-sparse candidates.
C11_MaxWhenKept ==
    (ScoredReturned /\ \E i \in ValidatedCandidates : RLe(MinAcceptable, scored_log[i].score))
        => ReturnsBestValidated

\* a call that kept two candidates, the second better than the first
C11_Witness ==
    /\ ScoredReturned
    /\ Len(candidates) >= 2
    /\ RLt(candidates[1].score, candidates[2].score)
    /\ ReturnsBestValidated

-----------------------------------------------------------------------------
(* Properties of choose_harmony (SpecDet) *)

HarmonyChosen == method = "harmony" /\ attempt >= 1

\* C12: when the option bag contains bars, the HarmonySpec choose_harmony
\* returns has meter 4/4 and total_measures equal to bars; without bars the
\* meter is one of 3/4, 4/4, 5/4, 6/8, 7/8 and the measure count one of
\* 4, 8, 12, 16.
C12_BarsHonoured ==
    HarmonyChosen =>
        IF "bars" \in DOMAIN args.harmony_config
        THEN /\ harmony_spec.meter_numerator = 4
             /\ harmony_spec.meter_denominator = 4
             /\ harmony_spec.total_measures = args.harmony_config.bars
        ELSE /\ <<harmony_spec.meter_numerator, harmony_spec.meter_denominator>>
                    \in Range(time_sigs)
             /\ harmony_spec.total_measures \in Range(measure_counts)

\* choose_harmony was given bars and returned another measure count
C12_BarsIgnored ==
    /\ HarmonyChosen
    /\ "bars" \in DOMAIN args.harmony_config
    /\ harmony_spec.total_measures # args.harmony_config.bars
    /\ harmony_spec.total_measures \in Range(measure_counts)

-----------------------------------------------------------------------------
(* Termination and the fallback of generate_scored_melody (Spec) *)

LogOf(kind) == SelectSeq(scored_log, LAMBDA e : e.kind = kind)

\* what holds of a call of generate_scored_melody that has returned
ScoredOutcome ==
    /\ Len(LogOf("candidate")) = generation_config.candidate_count
    /\ \A i \in 1..generation_config.candidate_count : scored_log[i].kind = "candidate"
    /\ Len(LogOf("fallback")) = (IF candidates = <<>> THEN 1 ELSE 0)
    /\ candidates = <<>> =>
          LET fallback == scored_log[Len(scored_log)]
          IN /\ fallback.kind = "fallback"
             /\ pitches = fallback.pitches
             /\ durations = fallback.durations
             /\ score = fallback.score
    /\ candidates # <<>> => RLe(MinAcceptable, score)

\* the work a call of generate_scored_melody still has before it: the
\* candidates and the fallback still to come, then the beats still to fill
\* in the melody being generated
ScoredVariant ==
    LET count == generation_config.candidate_count
        outer == CASE scored_pc = "idle" -> 3 * count + 3
                   [] scored_pc = "loop" -> 3 * (count - trial) + 2
                   [] scored_pc = "candidate" -> 3 * (count - trial) + 1
                   [] scored_pc = "fallback" -> 1
                   [] OTHER -> 0
        left == TotalBeats(harmony_spec) - elapsed_beats
        inner == IF gen_pc = "loop" THEN (IF left > 0 THEN left ELSE 0) + 1 ELSE 0
    IN outer * (TotalBeats(harmony_spec) + 2) + inner

\* the call can take its next step: no loop of the generator is left spinning
\* without a duration or a pitch to append, and nothing was raised
ScoredCanStep ==
    CASE scored_pc = "idle" -> cli_pc = "caller"
      [] scored_pc = "loop" ->
            \/ trial < generation_config.candidate_count
            \/ candidates = <<>>
            \/ candidates # <<>>
      [] scored_pc \in {"candidate", "fallback"} ->
            \/ gen_pc = "done"
            \/ /\ gen_pc = "loop"
               /\ IF elapsed_beats < TotalBeats(harmony_spec)
                  THEN \E d \in RandomDuration(TotalBeats(harmony_spec) - elapsed_beats, rng) :
                          RandomPitch(d.rng) # {}
                  ELSE structure_spec.present /\ structure_spec.repeat_unit_beats # 0 =>
                          apply_motif_repetition(pitches, durations,
                              structure_spec.repeat_unit_beats,
                              structure_spec.allow_motif_variation,
                              structure_spec.variation_probability, StructureRng(rng)) # {}
      [] OTHER -> FALSE

----------------------------------------------------------------------------
(* hydral/pipeline.py and hydral/steps/builtin.py.  A path is the triple     *)
(* <<directory, stem, suffix>>, None the empty tuple; a dictionary is a      *)
(* function from its keys.                                                   *)

MaxSteps == 3      \* a pipeline has at most MaxSteps steps

NoPath == <<>>

\* Artifacts()
NoArtifacts ==
    [features_json |-> NoPath, normalized_wav |-> NoPath, grain_wav |-> NoPath,
     band_manifest_json |-> NoPath, band_dir |-> NoPath]

EmptyDict == [k \in {} |-> <<>>]

\* PipelineContext(input_path=..., output_dir=...); __post_init__ sets audio_path
PipelineContext(input_path, output_dir) ==
    [input_path |-> input_path, output_dir |-> output_dir, sample_rate |-> NoPath,
     artifacts |-> NoArtifacts, extra |-> EmptyDict, audio_path |-> input_path]

\* ctx.output_dir / f"{ctx.input_path.stem}<suffix>"
OutPath(c, suffix) == <<c.output_dir, c.input_path[2], suffix>>

\* the step's read of ctx.audio_path can succeed: the band directory is no audio file
Readable(path) == path[3] # "_bands"

\* _RecordingStep(name).run of test_pipeline.py
RecordingStep_run(name, c) ==
    [c EXCEPT !.extra = ("log" :> Append(IF "log" \in DOMAIN c.extra THEN c.extra["log"]
                                          ELSE <<>>, name)) @@ c.extra]

\* AnalyzeStep.run
AnalyzeStep_run(c) ==
    LET out_path == OutPath(c, "_features.json")
    IN [c EXCEPT !.artifacts.features_json = out_path,
                 !.extra = ("features_path" :> out_path) @@ c.extra]

\* NormalizeStep.run
NormalizeStep_run(c) ==
    LET out_path == OutPath(c, "_normalized.wav")
    IN [c EXCEPT !.artifacts.normalized_wav = out_path,
                 !.extra = ("normalized_path" :> out_path) @@ c.extra,
                 !.audio_path = out_path]

\* BandSplitStep.run
BandSplitStep_run(c) ==
    LET band_dir == OutPath(c, "_bands")
    IN [c EXCEPT !.artifacts.band_dir = band_dir,
                 !.artifacts.band_manifest_json = <<band_dir, "split_manifest", ".json">>,
                 !.extra = ("band_split_manifest" :> <<"manifest", c.audio_path>>) @@ c.extra,
                 !.audio_path = band_dir]

\* GrainStep.run
GrainStep_run(c) ==
    LET out_path == OutPath(c, "_grain.wav")
    IN [c EXCEPT !.artifacts.grain_wav = out_path,
                 !.extra = ("grain_path" :> out_path) @@ c.extra,
                 !.audio_path = out_path]

StepNames == {"a", "b", "analyze", "normalize", "band_split", "grain"}

Raise == [raised |-> TRUE, ctx |-> <<>>]
Return(c) == [raised |-> FALSE, ctx |-> c]

\* step.run(ctx): the contexts it can return, or Raise when reading the audio fails
StepRun(step, c) ==
    IF step \in {"a", "b"} THEN {Return(RecordingStep_run(step, c))}
    ELSE IF ~Readable(c.audio_path) THEN {Raise}
    ELSE {Raise,
          Return(CASE step = "analyze" -> AnalyzeStep_run(c)
                   [] step = "normalize" -> NormalizeStep_run(c)
                   [] step = "band_split" -> BandSplitStep_run(c)
                   [] step = "grain" -> GrainStep_run(c))}

\* the steps taken from the end of the list
StepAtReversed(ss, k) == ss[Len(ss) - k]

\* "for step in self._steps": the step of iteration k = 0, 1, ...
StepAt(ss, k) == ss[k + 1]

InputPaths == {<<"raw", "track", ".wav">>, <<"raw", "in", ".wav">>}

InitialContexts == {PipelineContext(path, "out") : path \in InputPaths}

\* the songmaking side is not used
InitSongmakingIdle ==
    /\ fixed_streams = FALSE
    /\ seed = 0
    /\ InitRequest(Request(Harmony("C", ionian, 60, 62, 1, 32, 1), DefaultConfig,
                           NoStructure, "none"))
    /\ InitGenerator
    /\ args = NoArgs
    /\ attempt = 0
    /\ cli_pc = "idle"
    /\ warned = FALSE
    /\ attempt_log = <<>>
    /\ first_result = NoResult
    /\ eval_in = NoEval
    /\ eval_out = NoScore

\* Pipeline(steps).run(ctx) is called
InitPipe ==
    /\ InitSongmakingIdle
    /\ InitMetadataIdle
    /\ InitRunnerIdle
    /\ steps \in SeqsUpTo(StepNames, MaxSteps)
    /\ ctx \in InitialContexts
    /\ step_idx = 0
    /\ pipe_pc = "running"
    /\ run_log = <<>>

songmaking_vars == <<cli_vars, request_vars, eval_vars, scored_vars, gen_pc, rng, transitions,
                     pitches, durations, elapsed_beats, debug_stats, snap_fallbacks, first_result>>

\* one iteration of the loop: ctx = step.run(ctx)
PipelineStep ==
    /\ pipe_pc = "running"
    /\ step_idx < Len(steps)
    /\ \E out \in StepRun(StepAt(steps, step_idx), ctx) :
         IF out.raised
         THEN /\ pipe_pc' = "raised"
              /\ UNCHANGED <<ctx, step_idx, run_log>>
         ELSE /\ ctx' = out.ctx
              /\ step_idx' = step_idx + 1
              /\ run_log' = Append(run_log, [step |-> StepAt(steps, step_idx),
                                             got |-> ctx, returned |-> out.ctx])
              /\ UNCHANGED pipe_pc
    /\ UNCHANGED <<steps, metadata_vars, runner_vars, songmaking_vars>>

\* return ctx
PipelineReturn ==
    /\ pipe_pc = "running"
    /\ ~(step_idx < Len(steps))
    /\ pipe_pc' = "returned"
    /\ UNCHANGED <<steps, ctx, step_idx, run_log, metadata_vars, runner_vars, songmaking_vars>>

NextPipe ==
    \/ PipelineStep
    \/ PipelineReturn

SpecPipe == InitPipe /\ [][NextPipe]_vars

\* C19: Pipeline.run applies the steps in list order, each once, every step
\* getting the context the one before it returned and the first the input
\* context; it returns the context the last step returned, the input context
\* untouched when there is no step; and no step changes ctx.input_path.
C19_StepsInOrder ==
    /\ Len(run_log) = step_idx
    /\ step_idx <= Len(steps)
    /\ \A k \in 1..Len(run_log) :
          /\ run_log[k].step = steps[k]
          /\ k = 1 => run_log[k].got \in InitialContexts
          /\ k > 1 => run_log[k].got = run_log[k - 1].returned
          /\ run_log[k].returned.input_path = run_log[k].got.input_path
    /\ pipe_pc = "returned" =>
          /\ Len(run_log) = Len(steps)
          /\ steps # <<>> => ctx = run_log[Len(run_log)].returned
          /\ steps = <<>> => ctx \in InitialContexts

\* normalize, then a, then grain have run and the pipeline has returned
C19_Witness ==
    /\ pipe_pc = "returned"
    /\ steps = <<"normalize", "a", "grain">>
    /\ run_log[3].got.audio_path = OutPath(ctx, "_normalized.wav")
    /\ run_log[3].got.extra["log"] = <<"a">>
    /\ ctx.audio_path = OutPath(ctx, "_grain.wav")
    /\ ctx.input_path \in InputPaths

----------------------------------------------------------------------------
(* hydral/processing/unify_metadata.py.  A JSON object is the list of its    *)
(* <<key, value>> items in order, keys distinct; the values are opaque.      *)

MaxLegacyKeys == 2   \* a legacy sidecar has at most MaxLegacyKeys keys
MaxCalls == 2        \* ensure_metadata is called MaxCalls times in a row

SCHEMA_VERSION == "v1"

V1_REQUIRED == {"schema_version", "filename", "duration_sec", "sample_rate", "channels", "tags"}

\* _LEGACY_FIELD_MAP.get(k, k)
LEGACY_FIELD_MAP(k) ==
    CASE k \in {"duration", "length_sec"} -> "duration_sec"
      [] k \in {"rms", "rms_db", "rms_mean"} -> "mean_rms"
      [] OTHER -> k

DictKeys(items) == {items[i][1] : i \in 1..Len(items)}

\* d.get(k)
DictGet(items, k) ==
    IF k \in DictKeys(items) THEN items[CHOOSE i \in 1..Len(items) : items[i][1] = k][2]
    ELSE "None"

\* d[k] = v
DictSet(items, k, v) ==
    IF k \in DictKeys(items)
    THEN [i \in 1..Len(items) |-> IF items[i][1] = k THEN <<k, v>> ELSE items[i]]
    ELSE Append(items, <<k, v>>)

\* what json.load returns: None, an object, or a value that is no object
NoJson == [kind |-> "none", items |-> <<>>]
JsonObject(items) == [kind |-> "dict", items |-> items]
JsonList(items) == [kind |-> "list", items |-> items]

\* is_v1
is_v1(data) ==
    /\ data.kind = "dict"
    /\ DictGet(data.items, "schema_version") = SCHEMA_VERSION
    /\ V1_REQUIRED \subseteq DictKeys(data.items)

WavName == "example.wav"

\* _read_wav_info
read_wav_info ==
    [duration_sec |-> "12.0", sample_rate |-> "44100", channels |-> "1"]

\* nothing is kept out of the merge
NoIdentityFields == {}

\* the keys of the merge loop that "continue"
IdentityFields == {"schema_version", "filename"}

\* "for k, v in existing.items(): translated[canonical] = v"
RECURSIVE Translate(_, _)
Translate(items, translated) ==
    IF items = <<>> THEN translated
    ELSE Translate(Tail(items),
                   DictSet(translated, LEGACY_FIELD_MAP(Head(items)[1]), Head(items)[2]))

\* "for k, v in translated.items(): ... doc[k] = v"
RECURSIVE Merge(_, _)
Merge(translated, doc) ==
    IF translated = <<>> THEN doc
    ELSE Merge(Tail(translated),
               IF Head(translated)[1] \in IdentityFields THEN doc
               ELSE DictSet(doc, Head(translated)[1], Head(translated)[2]))

\* to_v1(wav_path, existing): the document, or raised when existing is a
\* non-empty value without items()
to_v1(wav_name, existing) ==
    LET wav_info == read_wav_info
        doc == <<<<"schema_version", SCHEMA_VERSION>>,
                 <<"filename", wav_name>>,
                 <<"duration_sec", wav_info.duration_sec>>,
                 <<"sample_rate", wav_info.sample_rate>>,
                 <<"channels", wav_info.channels>>,
                 <<"tags", "[]">>,
                 <<"normalized", "false">>,
                 <<"mean_rms", "null">>>>
    IN IF existing.kind = "none" \/ existing.items = <<>>
       THEN [raised |-> FALSE, doc |-> doc]
       ELSE IF existing.kind # "dict"
       THEN [raised |-> TRUE, doc |-> <<>>]
       ELSE [raised |-> FALSE, doc |-> Merge(Translate(existing.items, <<>>), doc)]

\* the sidecar file: absent, or present with a text
Absent == [exists |-> FALSE, parses |-> FALSE, value |-> NoJson]
Garbage == [exists |-> TRUE, parses |-> FALSE, value |-> NoJson]

\* json.dump(value, fh): the file afterwards
json_dump(value) == [exists |-> TRUE, parses |-> TRUE, value |-> value]

\* json.load(fh) inside the try: None on JSONDecodeError
json_load(file) == IF file.parses THEN file.value ELSE NoJson

LegacyKeys == {"schema_version", "filename", "duration", "length_sec", "rms", "tags", "artist"}
LegacyValues == {"v1", "old"}

\* the objects of at most n items over the legacy keys
RECURSIVE LegacyItems(_)
LegacyItems(n) ==
    IF n = 0 THEN {<<>>}
    ELSE LegacyItems(n - 1) \cup
         {Append(items, <<k, v>>) : items \in {l \in LegacyItems(n - 1) : Len(l) = n - 1},
                                   k \in LegacyKeys, v \in LegacyValues}

LegacyObjects ==
    {items \in LegacyItems(MaxLegacyKeys) :
        \A i, j \in 1..Len(items) : items[i][1] = items[j][1] => i = j}

\* v1 documents: migrated legacy objects
V1Objects == {to_v1(WavName, JsonObject(items)).doc : items \in LegacyObjects}

\* a v1 document that lost one item
Truncated(items, k) == SelectSeq(items, LAMBDA item : item[1] # k)

Sidecars ==
    {Absent, Garbage}
    \cup {json_dump(JsonList(l)) : l \in {<<>>, <<"x">>}}
    \cup {json_dump(JsonObject(items)) : items \in LegacyObjects \cup V1Objects}
    \cup {json_dump(JsonObject(Truncated(to_v1(WavName, NoJson).doc, k))) : k \in V1_REQUIRED}

\* ensure_metadata(wav_path) is about to be called
InitMeta ==
    /\ InitSongmakingIdle
    /\ InitPipelineIdle
    /\ sidecar \in Sidecars
    /\ meta_pc = "call"
    /\ call_log = <<>>

\* one call of ensure_metadata; wav_ok: sf.info can read the WAV; disk_ok:
\* the write goes through (the file is truncated when it does not)
EnsureMetadata ==
    /\ meta_pc = "call"
    /\ Len(call_log) < MaxCalls
    /\ \E wav_ok, disk_ok \in BOOLEAN :
         LET existing == IF sidecar.exists THEN json_load(sidecar) ELSE NoJson
             made == to_v1(WavName, existing)
             result(outcome, changed, wrote, after) ==
                 [outcome |-> outcome, changed |-> changed, wrote |-> wrote,
                  before |-> sidecar, after |-> after]
         IN IF existing.kind # "none" /\ is_v1(existing)
            THEN /\ call_log' = Append(call_log, result("returned", FALSE, FALSE, sidecar))
                 /\ UNCHANGED sidecar
            ELSE IF ~wav_ok \/ made.raised
            THEN /\ call_log' = Append(call_log, result("raised", FALSE, FALSE, sidecar))
                 /\ UNCHANGED sidecar
            ELSE IF ~disk_ok
            THEN /\ sidecar' = Garbage
                 /\ call_log' = Append(call_log, result("raised", FALSE, TRUE, Garbage))
            ELSE /\ sidecar' = json_dump(JsonObject(made.doc))
                 /\ call_log' = Append(call_log, result("returned", TRUE, TRUE,
                                                        json_dump(JsonObject(made.doc))))
    /\ UNCHANGED <<meta_pc, pipeline_vars, runner_vars, songmaking_vars>>

\* the caller stops calling
MetaDone ==
    /\ meta_pc = "call"
    /\ ~(Len(call_log) < MaxCalls)
    /\ meta_pc' = "done"
    /\ UNCHANGED <<sidecar, call_log, pipeline_vars, runner_vars, songmaking_vars>>

NextMeta ==
    \/ EnsureMetadata
    \/ MetaDone

SpecMeta == InitMeta /\ [][NextMeta]_vars

\* the file holds an object with schema_version "v1" and the six required keys
ConformsV1(file) ==
    /\ file.exists
    /\ file.parses
    /\ file.value.kind = "dict"
    /\ \E i \in 1..Len(file.value.items) : file.value.items[i] = <<"schema_version", "v1">>
    /\ \A k \in V1_REQUIRED : \E i \in 1..Len(file.value.items) : file.value.items[i][1] = k

\* C20: after a call of ensure_metadata that returns, whatever the sidecar
\* was before (absent, unparsable, legacy, v1), the sidecar conforms to v1; a
\* call right after a call that returned returns changed = False and leaves
\* the file alone; and a call on a v1 sidecar returns changed = False and
\* does not touch it.
C20_Idempotent ==
    \A i \in 1..Len(call_log) :
        LET c == call_log[i]
        IN /\ c.outcome = "returned" => ConformsV1(c.after) /\ (c.changed <=> c.wrote)
           /\ (i > 1 /\ call_log[i - 1].outcome = "returned") =>
                 /\ c.outcome = "returned"
                 /\ ~c.changed
                 /\ ~c.wrote
                 /\ c.after = c.before
           /\ ConformsV1(c.before) =>
                 /\ c.outcome = "returned"
                 /\ ~c.changed
                 /\ ~c.wrote
                 /\ c.after = c.before

\* a legacy sidecar with schema_version "old" and a duration was migrated by
\* the first call, and the second call left it alone
C20_Witness ==
    /\ Len(call_log) = 2
    /\ call_log[1].before = json_dump(JsonObject(<<<<"schema_version", "old">>,
                                                   <<"duration", "old">>>>))
    /\ call_log[1].outcome = "returned"
    /\ call_log[1].changed
    /\ DictGet(call_log[1].after.value.items, "duration_sec") = "old"
    /\ DictGet(call_log[1].after.value.items, "schema_version") = "v1"
    /\ call_log[2].outcome = "returned"
    /\ ~call_log[2].changed
    /\ sidecar = call_log[1].after

-----------------------------------------------------------------------------
(* The unmet-constraint signal (SpecCli) *)

SomeAttemptAccepted == \E i \in 1..Len(attempt_log) : attempt_log[i].verdict = "accepted"

\* C21: with a target set, the warning "Failed to meet pitch constraint" is
\* printed exactly when max_attempts attempts were made and none of them met
\* the constraint; when some attempt meets it, the last permitted one
\* included, no warning is printed.
C21_WarnedIffNoneAccepted ==
    (cli_pc = "saved" /\ args.mean_pitch_target # NoTarget)
        => (warned <=> (attempt = args.max_attempts /\ ~SomeAttemptAccepted))

\* every attempt but the last permitted one was rejected, the last one was
\* accepted, and the warning is printed after the loop
C21_LastAcceptedWarned ==
    /\ cli_pc = "saved"
    /\ args.mean_pitch_target # NoTarget
    /\ args.max_attempts >= 2
    /\ Len(attempt_log) = args.max_attempts
    /\ \A i \in 1..(Len(attempt_log) - 1) : attempt_log[i].verdict = "rejected"
    /\ attempt_log[Len(attempt_log)].verdict = "accepted"
    /\ warned

-----------------------------------------------------------------------------
(* The length of the rebuilt melody (Spec) *)

\* C22: when apply_motif_repetition rebuilds the melody (num_repeats >= 2),
\* the durations it returns add up to exactly what the durations it was given
\* add up to, for every duration sequence and every repeat_unit_beats.
C22_LengthPreserved ==
    [][(/\ gen_pc = "loop"
        /\ gen_pc' = "done"
        /\ method \in {"random", "scored"}
        /\ RepetitionApplied)
       => SumSeq(durations') = SumSeq(durations)
      ]_vars

\* a melody rebuilt from grid durations that filled the bars exactly is
\* returned shorter than the bars: the copies were cut by note count
C22_RebuiltShorter ==
    /\ RandomReturned
    /\ structure_spec.present
    /\ structure_spec.repeat_unit_beats > 0
    /\ structure_spec.rhythm_profile = <<>>
    /\ snap_fallbacks = 0
    /\ elapsed_beats = TotalBeats(harmony_spec)
    /\ debug_stats.repeat_count >= 1
    /\ SumSeq(durations) < elapsed_beats

-----------------------------------------------------------------------------
(* Rests under motif variation (Spec) *)

\* C23: a varied copy of the motif has its rests exactly where the motif has
\* them, whichever variation (transpose, neighbor, inversion) was drawn: in
\* the rebuilt melody a position is a rest (pitch 0) if and only if the same
\* position of the motif is one.
C23_RestsPreserved ==
    [][(/\ gen_pc = "loop"
        /\ gen_pc' = "done"
        /\ method \in {"random", "scored"}
        /\ RepetitionApplied
        /\ structure_spec.allow_motif_variation)
       => LET n == UnitLength(durations, structure_spec.repeat_unit_beats)
          IN \A i \in 1..Len(pitches') :
                (pitches'[i] = 0) <=> (pitches[((i - 1) % n) + 1] = 0)
      ]_vars

\* a returned melody whose motif has a rest followed by a sounding note, and
\* whose second copy has a rest in the place of that note
C23_NoteBecameRest ==
    /\ RandomReturned
    /\ structure_spec.present
    /\ structure_spec.allow_motif_variation
    /\ debug_stats.repeat_count >= 2
    /\ LET n == UnitLength(durations, structure_spec.repeat_unit_beats)
       IN /\ Len(pitches) >= 2 * n
          /\ \E i \in 2..n : /\ pitches[i - 1] = 0
                             /\ pitches[i] >= harmony_spec.lowest_midi
                             /\ pitches[n + i] = 0

-----------------------------------------------------------------------------
(* Durations under a rhythm profile (Spec) *)

\* elapsed_beats after the durations ds: snapped to the grid after every note
RECURSIVE ElapsedAfter(_)
ElapsedAfter(ds) ==
    IF ds = <<>> THEN 0
    ELSE snap_to_grid(ElapsedAfter(SubSeq(ds, 1, Len(ds) - 1)) + ds[Len(ds)])

\* a note is appended by the loop of generate_random_melody under a profile
ProfileNoteAppended ==
    /\ gen_pc = "loop"
    /\ method \in {"random", "scored"}
    /\ ProfileActive
    /\ Len(durations') = Len(durations) + 1

\* C24 as stated: under a rhythm profile the duration of a note is a key of
\* the profile that fits the remaining beats, or, when a key of the profile
\* would overshoot them, a value of the alphabet {4, 2, 1, 0.5, 0.25, 0.125}
\* that fits the remaining beats.
C24_FallbackOnGrid ==
    [][ProfileNoteAppended
       => LET remaining == TotalBeats(harmony_spec) - elapsed_beats
              d == durations'[Len(durations')]
          IN \/ d \in Range(ProfileKeys) /\ d <= remaining + FitEpsilon
             \/ /\ \E k \in Range(ProfileKeys) : k > remaining + FitEpsilon
                /\ d \in Range(DURATION_VALUES)
                /\ d <= remaining + FitEpsilon
      ]_vars

\* C24, amended: under a rhythm profile the duration of a note is a key of
\* the profile that fits the remaining beats whenever one fits, also when the
\* key drawn first would overshoot; when no key fits, it is the remaining
\* beats snapped to the grid, whether or not that is a value of the alphabet.
C24_FallbackWithinProfile ==
    [][ProfileNoteAppended
       => LET remaining == TotalBeats(harmony_spec) - elapsed_beats
              d == durations'[Len(durations')]
              fits == {k \in Range(ProfileKeys) : k <= remaining + FitEpsilon}
          IN IF fits # {}
             THEN d \in fits /\ snap_fallbacks' = snap_fallbacks
             ELSE d = snap_to_grid(remaining) /\ snap_fallbacks' = snap_fallbacks + 1
      ]_vars

\* every draw explored: before the last note a key of the profile would have
\* overshot what remained, and the note got a key of the profile that fits
\* and is no value of the alphabet
C24_Witness ==
    /\ ~fixed_streams
    /\ method = "random"
    /\ gen_pc = "loop"
    /\ ProfileActive
    /\ Len(durations) >= 2
    /\ snap_fallbacks = 0
    /\ LET before == ElapsedAfter(SubSeq(durations, 1, Len(durations) - 1))
           remaining == TotalBeats(harmony_spec) - before
           d == durations[Len(durations)]
       IN /\ \E k \in Range(ProfileKeys) : k > remaining + FitEpsilon
          /\ d \in Range(ProfileKeys)
          /\ d <= remaining + FitEpsilon
          /\ d \notin Range(DURATION_VALUES)

-----------------------------------------------------------------------------
(* The octave jump in both generators (Spec) *)

\* the octave jump of pick_scale_pitch is certain: octave_up_chance is 1.0 and
\* the octave above the previous pitch is in the scale with two semitones of
\* headroom
JumpCertain(previous_pitch) ==
    /\ generation_config.octave_up_chance = 100
    /\ previous_pitch # 0
    /\ previous_pitch + 12 <= harmony_spec.highest_midi - 2
    /\ (previous_pitch + 12) \in Range(ScaleOf(harmony_spec))

\* C25: generate_markov_melody applies the octave-jump policy of
\* generate_random_melody. With octave_up_chance 1.0 the policy leaves no
\* choice: in either generator a sounding pitch that follows a pitch with room
\* for the jump is that pitch raised one octave, and the jump is counted in
\* octave_up_events.
C25_SameOctavePolicy ==
    [][(/\ gen_pc = "loop"
        /\ method \in {"random", "markov"}
        /\ pitches # <<>>
        /\ Len(pitches') = Len(pitches) + 1
        /\ pitches'[Len(pitches')] # 0
        /\ JumpCertain(pitches[Len(pitches)]))
       => /\ pitches'[Len(pitches')] = pitches[Len(pitches)] + 12
          /\ debug_stats'.octave_up_events = debug_stats.octave_up_events + 1
      ]_vars

\* a Markov melody generated with octave_up_chance 1.0 repeats the pitch 60
\* where there was room for the jump to 72, and has counted no jump
C25_MarkovNeverJumps ==
    /\ MarkovReturned
    /\ generation_config.octave_up_chance = 100
    /\ Len(pitches) >= 2
    /\ JumpCertain(pitches[1])
    /\ pitches[2] = pitches[1]
    /\ debug_stats.octave_up_events = 0

\* the Random generator under the same request takes the jump and counts it
C25_RandomJumps ==
    /\ RandomReturned
    /\ generation_config.octave_up_chance = 100
    /\ Len(pitches) >= 2
    /\ JumpCertain(pitches[1])
    /\ pitches[2] = pitches[1] + 12
    /\ debug_stats.octave_up_events >= 1

-----------------------------------------------------------------------------
(* SpecScale: build_scale_pitch_set on everything choose_harmony can ask of it *)

\* octave_start = rng.randint(3, 5); low_note = (octave_start + 1) * 12
LowNotes == {(octave_start + 1) * 12 : octave_start \in 3..5}

\* range_span = rng.randint(14, 24)
RangeSpans == 14..24

\* every tonic, scale and range of a choose_harmony result
ScaleHarmonies ==
    {Harmony(Spell(note_names[n], accidentals[a]), scale_library[k], low, low + span, 4, 4, 4) :
        n \in 1..Len(note_names), a \in 1..Len(accidentals), k \in 1..Len(scale_library),
        low \in LowNotes, span \in RangeSpans}

InitScale ==
    /\ fixed_streams = TRUE
    /\ seed = 0
    /\ harmony_spec \in ScaleHarmonies
    /\ generation_config = DefaultConfig
    /\ structure_spec = NoStructure
    /\ method = "scale"
    /\ InitGenerator
    /\ args = NoArgs
    /\ attempt = 0
    /\ cli_pc = "caller"
    /\ warned = FALSE
    /\ attempt_log = <<>>
    /\ first_result = NoResult
    /\ eval_in = NoEval
    /\ eval_out = NoScore
    /\ InitPipelineIdle
    /\ InitMetadataIdle

\* scale_pitches = build_scale_pitch_set(spec.tonic_note, spec.scale_pattern,
\* spec.lowest_midi, spec.highest_midi)
BuildScale ==
    /\ method = "scale"
    /\ cli_pc = "caller"
    /\ built_scale' = build_scale_pitch_set(harmony_spec.tonic_note, harmony_spec.scale_pattern,
                                              harmony_spec.lowest_midi, harmony_spec.highest_midi)
    /\ cli_pc' = "returned"
    /\ UNCHANGED <<fixed_streams, harmony_spec, generation_config, structure_spec, method, args,
                   seed, attempt, warned, attempt_log, first_result, eval_vars, scored_vars,
                   gen_pc, rng, transitions, pitches, durations, elapsed_beats, debug_stats,
                   snap_fallbacks>>
    /\ UNCHANGED hydral_vars

NextScale == BuildScale

SpecScale == InitScale /\ [][NextScale]_vars

\* the pitch class a spelling names: the letter's semitone above C, lowered by
\* a flat and raised by a sharp, modulo 12
LetterClass(letter) ==
    CASE letter = "C" -> 0 [] letter = "D" -> 2 [] letter = "E" -> 4 [] letter = "F" -> 5
      [] letter = "G" -> 7 [] letter = "A" -> 9 [] letter = "B" -> 11

AccidentalShift(accidental) ==
    CASE accidental = "" -> 0 [] accidental = "b" -> -1 [] accidental = "#" -> 1

TonicClass(tonic_note) ==
    LET spelling == CHOOSE na \in (1..Len(note_names)) \X (1..Len(accidentals)) :
                        Spell(note_names[na[1]], accidentals[na[2]]) = tonic_note
    IN (LetterClass(note_names[spelling[1]]) + AccidentalShift(accidentals[spelling[2]])) % 12

\* the pitches of [lowest_midi, highest_midi] that belong to the scale
ScaleMembers(spec) ==
    {p \in spec.lowest_midi..spec.highest_midi :
        \E i \in 1..Len(spec.scale_pattern) :
            (p - TonicClass(spec.tonic_note)) % 12 = spec.scale_pattern[i] % 12}

\* C26: for every tonic spelling and range choose_harmony can produce,
\* build_scale_pitch_set returns a strictly ascending list whose elements are
\* exactly the pitches of [low, high] that lie in the interval pattern above
\* the tonic's pitch class, and the list is not empty.
C26_ScaleExact ==
    (method = "scale" /\ cli_pc = "returned") =>
        /\ \A i \in 1..(Len(built_scale) - 1) : built_scale[i] < built_scale[i + 1]
        /\ Range(built_scale) = ScaleMembers(harmony_spec)
        /\ built_scale # <<>>

\* B# major on [72, 96]: the list runs from 72, the tonic itself, to 96, two
\* octaves above it
C26_Witness ==
    /\ method = "scale"
    /\ cli_pc = "returned"
    /\ harmony_spec.tonic_note = "B#"
    /\ harmony_spec.scale_pattern = ionian
    /\ harmony_spec.lowest_midi = 72
    /\ harmony_spec.highest_midi = 96
    /\ Len(built_scale) = 15
    /\ built_scale[1] = 72
    /\ built_scale[15] = 96

-----------------------------------------------------------------------------
(* Progress of the generation loop (Spec) *)

\* C27: every iteration of the loop of generate_random_melody strictly
\* increases the grid-snapped elapsed_beats, whatever the duration source
\* (the alphabet, or a rhythm profile with any positive keys), so that
\* total_beats is reached after finitely many notes.
C27_ElapsedIncreases ==
    [][(/\ gen_pc = "loop"
        /\ method \in {"random", "scored"}
        /\ Len(durations') = Len(durations) + 1)
       => elapsed_beats' > elapsed_beats
      ]_vars

\* a profile whose only key is below half the grid: several notes of positive
\* duration were appended and elapsed_beats is still 0, as it was at the start
C27_Stuck ==
    /\ gen_pc = "loop"
    /\ method = "random"
    /\ ProfileActive
    /\ Len(durations) >= 3
    /\ \A i \in 1..Len(durations) : durations[i] > 0
    /\ 2 * durations[1] < GRID_RESOLUTION
    /\ elapsed_beats = 0
    /\ elapsed_beats < TotalBeats(harmony_spec)

-----------------------------------------------------------------------------
(* The fallback of generate_scored_melody and candidate 0 (Spec) *)

\* generate_scored_melody has returned through "if not candidates", after a
\* candidate loop of at least one candidate
FallbackAfterCandidates ==
    /\ ScoredReturned
    /\ candidates = <<>>
    /\ generation_config.candidate_count >= 1

\* C28: the fallback generation uses the base seed, which is the seed of
\* candidate 0, so whenever the fallback path is taken the pitches and
\* durations returned are those of candidate 0, whether candidate 0 passed
\* validation or not and whether or not another candidate scored higher.
C28_FallbackIsCandidateZero ==
    FallbackAfterCandidates =>
        LET first == scored_log[1]
            fallback == scored_log[Len(scored_log)]
        IN /\ first.kind = "candidate"
           /\ fallback.kind = "fallback"
           /\ first.seed = seed
           /\ fallback.seed = first.seed
           /\ fallback.pitches = first.pitches
           /\ fallback.durations = first.durations
           /\ pitches = first.pitches
           /\ durations = first.durations

\* the fallback was returned although a later candidate passed validation
\* with a higher score than candidate 0
C28_Witness ==
    /\ FallbackAfterCandidates
    /\ pitches = scored_log[1].pitches
    /\ pitches # <<>>
    /\ \E i \in ValidatedCandidates : i > 1 /\ RLt(scored_log[1].score, scored_log[i].score)

\* the fallback was returned although candidate 0 had failed validation
C28_RejectedReturned ==
    /\ FallbackAfterCandidates
    /\ pitches = scored_log[1].pitches
    /\ ~scored_log[1].validated

\* ---------------------------------------------------------------------------
\* run_pipeline of yaml_runner.py (SpecRun)
\* ---------------------------------------------------------------------------

MaxConfigSteps == 2    \* config.steps has at most MaxConfigSteps entries

\* StepRegistry.names() after _register_builtins
RegisteredSteps == {"analyze", "normalize", "band_split", "grain"}

\* the step names the configurations are drawn from
ConfigStepNames == {"analyze", "normalize", "grain"}

\* StepConfig(name, enabled, params); params is "ok" when every key is a keyword
\* of the step's constructor and "unexpected" when one is not
StepConfig(name, enabled, params) == [name |-> name, enabled |-> enabled, params |-> params]

\* load_config: an enabled step with an unregistered name is refused, params are taken as given
load_config_accepts(step_cfg) == step_cfg.enabled => step_cfg.name \in RegisteredSteps

StepConfigs ==
    {sc \in {StepConfig(n, e, p) : n \in ConfigStepNames, e \in BOOLEAN, p \in {"ok", "unexpected"}} :
        /\ load_config_accepts(sc)
        /\ ~sc.enabled => sc.params = "ok"}

ConfigSteps == UNION {[1..n -> StepConfigs] : n \in 0..MaxConfigSteps}

\* collect_inputs: one file, or the sorted files of a folder
InputFileLists == {<<<<"raw", "track", ".wav">>>>, <<<<"raw", "in", ".wav">>, <<"raw", "track", ".wav">>>>}

\* output_root / audio_file.stem
FileOutputDir(audio_file) == IF audio_file[2] = "track" THEN "out/track" ELSE "out/in"

\* the file each built-in step writes: f"{stem}<suffix>" under ctx.output_dir
StepSuffix(name) ==
    CASE name = "analyze" -> "_features.json"
      [] name = "normalize" -> "_normalized.wav"
      [] name = "band_split" -> "_bands"
      [] name = "grain" -> "_grain.wav"

\* step.output_exists(ctx)
output_exists(name, c) == OutPath(c, StepSuffix(name)) \in disk

\* build_step -> StepRegistry.build: the factory is called with **params
build_step(step_cfg) ==
    IF step_cfg.name \notin RegisteredSteps THEN "ValueError"
    ELSE IF step_cfg.params = "unexpected" THEN "TypeError"
    ELSE "built"

\* BaseStep.fingerprint
fingerprint(name, c) == [step |-> name, input |-> c.audio_path]

\* _capture_outputs: the artifact the step recorded
capture_outputs(name, c) ==
    CASE name = "analyze" -> <<c.artifacts.features_json>>
      [] name = "normalize" -> <<c.artifacts.normalized_wav>>
      [] name = "band_split" -> <<c.artifacts.band_dir>>
      [] name = "grain" -> <<c.artifacts.grain_wav>>

StepTrace(name, status, outputs) == [name |-> name, status |-> status, outputs |-> outputs]
FileTrace(input, status, step_traces) == [input |-> input, status |-> status, steps |-> step_traces]

\* the outputs of earlier runs that may already lie under the first file's output_dir
EarlierOutputs(files) ==
    SUBSET {<<FileOutputDir(files[1]), files[1][2], StepSuffix(n)>> : n \in ConfigStepNames}

InitRun ==
    /\ InitSongmakingIdle
    /\ InitMetadataIdle
    /\ \/ /\ input_files = <<>>
          /\ steps = <<>>
          /\ disk = {}
       \/ /\ input_files \in InputFileLists
          /\ steps \in ConfigSteps
          /\ disk \in EarlierOutputs(input_files)
    /\ file_idx = 0
    /\ ctx = <<>>
    /\ step_idx = 0
    /\ pipe_pc = "files"
    /\ run_log = <<>>
    /\ file_trace = <<>>
    /\ file_failed = FALSE
    /\ step_fingerprints = <<>>
    /\ report = <<>>

\* "if not input_files: return"
RunNoInput ==
    /\ pipe_pc = "files"
    /\ input_files = <<>>
    /\ pipe_pc' = "returned"
    /\ UNCHANGED <<steps, ctx, step_idx, run_log, metadata_vars, runner_vars, songmaking_vars>>

\* "for audio_file in input_files": the lines before the loop over the steps
RunFileBegin ==
    /\ pipe_pc = "files"
    /\ file_idx < Len(input_files)
    /\ LET audio_file == input_files[file_idx + 1]
       IN /\ ctx' = PipelineContext(audio_file, FileOutputDir(audio_file))
          /\ file_trace' = FileTrace(audio_file, "success", <<>>)
    /\ file_failed' = FALSE
    /\ step_fingerprints' = <<>>
    /\ step_idx' = 0
    /\ pipe_pc' = "steps"
    /\ UNCHANGED <<steps, run_log, input_files, file_idx, disk, report,
                   metadata_vars, songmaking_vars>>

\* one iteration of "for step_cfg in config.steps"
RunStep ==
    /\ pipe_pc = "steps"
    /\ step_idx < Len(steps)
    /\ LET step_cfg == StepAt(steps, step_idx)
           name == step_cfg.name
           Traced(trace) == file_trace' = [file_trace EXCEPT !.steps = Append(@, trace)]
           \* history: what happened to the step, the audio it was handed, and whether
           \* its output lay on the disk when its turn came
           Logged(event) == run_log' = Append(run_log,
                                [step |-> name, event |-> event, audio |-> ctx.audio_path,
                                 existed |-> OutPath(ctx, StepSuffix(name)) \in disk])
       IN IF ~step_cfg.enabled
          THEN /\ Traced(StepTrace(name, "skipped_disabled", <<>>))
               /\ Logged("disabled")
               /\ step_idx' = step_idx + 1
               /\ UNCHANGED <<ctx, pipe_pc, file_failed, step_fingerprints, disk>>
          ELSE IF build_step(step_cfg) = "ValueError"
          THEN /\ Traced(StepTrace(name, "failed", <<>>))
               /\ Logged("build_raised")
               /\ file_failed' = TRUE
               /\ step_idx' = step_idx + 1
               /\ UNCHANGED <<ctx, pipe_pc, step_fingerprints, disk>>
          ELSE IF build_step(step_cfg) = "TypeError"
          THEN \* no handler: the exception leaves run_pipeline
               /\ Logged("build_raised")
               /\ pipe_pc' = "raised"
               /\ UNCHANGED <<ctx, step_idx, file_trace, file_failed, step_fingerprints, disk>>
          ELSE /\ step_fingerprints' = DictSet(step_fingerprints, name, fingerprint(name, ctx))
               /\ step_idx' = step_idx + 1
               /\ pipe_pc' = pipe_pc
               /\ IF output_exists(name, ctx)
                  THEN /\ Traced(StepTrace(name, "skipped_exists", <<>>))
                       /\ Logged("output_existed")
                       /\ UNCHANGED <<ctx, file_failed, disk>>
                  ELSE \E outcome \in StepRun(name, ctx) :
                          IF outcome.raised
                          THEN /\ Traced(StepTrace(name, "failed", <<>>))
                               /\ Logged("run_raised")
                               /\ file_failed' = TRUE
                               /\ UNCHANGED <<ctx, disk>>
                          ELSE /\ ctx' = outcome.ctx
                               /\ disk' = disk \cup {OutPath(ctx, StepSuffix(name))}
                               /\ Traced(StepTrace(name, "ran", capture_outputs(name, outcome.ctx)))
                               /\ Logged("run_returned")
                               /\ UNCHANGED file_failed
    /\ UNCHANGED <<steps, input_files, file_idx, report, metadata_vars, songmaking_vars>>

\* the lines after the loop over the steps: cache manifest, file status, report.files
RunFileEnd ==
    /\ pipe_pc = "steps"
    /\ step_idx = Len(steps)
    /\ disk' = IF step_fingerprints # <<>>
               THEN disk \cup {<<FileOutputDir(input_files[file_idx + 1]), ".cache", "manifest.json">>}
               ELSE disk
    /\ file_trace' = [file_trace EXCEPT !.status = IF file_failed THEN "failed" ELSE @]
    /\ report' = Append(report, file_trace')
    /\ file_idx' = file_idx + 1
    /\ pipe_pc' = "files"
    /\ UNCHANGED <<steps, ctx, step_idx, run_log, input_files, file_failed, step_fingerprints,
                   metadata_vars, songmaking_vars>>

\* after the last file: _write_report, and run_pipeline returns
RunFinish ==
    /\ pipe_pc = "files"
    /\ input_files # <<>>
    /\ file_idx = Len(input_files)
    /\ disk' = disk \cup {<<"out", "runs", "report.json">>}
    /\ pipe_pc' = "returned"
    /\ UNCHANGED <<steps, ctx, step_idx, run_log, input_files, file_idx, file_trace, file_failed,
                   step_fingerprints, report, metadata_vars, songmaking_vars>>

NextRun == RunNoInput \/ RunFileBegin \/ RunStep \/ RunFileEnd \/ RunFinish

SpecRun == InitRun /\ [][NextRun]_vars

\* ---------------------------------------------------------------------------
\* Piping from normalize to the next step (SpecRun)
\* ---------------------------------------------------------------------------

\* the step the runner went through last for the current file, and its trace
LastProcessed == steps[step_idx]
LastTrace == file_trace.steps[step_idx]

NormalizeProcessed ==
    /\ pipe_pc = "steps"
    /\ step_idx > 0
    /\ Len(file_trace.steps) = step_idx
    /\ LastProcessed.name = "normalize"
    /\ LastProcessed.enabled
    /\ LastTrace.status \in {"ran", "skipped_exists"}

\* C29: once the runner has processed an enabled normalize step for a file,
\* whether it ran or was skipped because its output existed, ctx.audio_path is
\* <stem>_normalized.wav, so that the next step reads the normalised audio.
C29_AudioPathNormalized ==
    NormalizeProcessed => ctx.audio_path = OutPath(ctx, "_normalized.wav")

\* normalize was skipped because its output existed, and the grain step after it
\* ran on the input file
C29_GrainReadsRaw ==
    /\ pipe_pc = "steps"
    /\ step_idx = 2
    /\ Len(file_trace.steps) = 2
    /\ file_trace.steps[1] = StepTrace("normalize", "skipped_exists", <<>>)
    /\ file_trace.steps[2].name = "grain"
    /\ file_trace.steps[2].status = "ran"
    /\ run_log[Len(run_log)].audio = ctx.input_path
    /\ OutPath(ctx, "_normalized.wav") \in disk

\* the part of the piping that the runner does keep: a normalize step that ran
\* leaves ctx.audio_path at its output
C29_RanIsPiped ==
    (NormalizeProcessed /\ LastTrace.status = "ran")
        => ctx.audio_path = OutPath(ctx, "_normalized.wav")

\* ---------------------------------------------------------------------------
\* The step traces of run_pipeline (SpecRun)
\* ---------------------------------------------------------------------------

\* the history entry of step k of file i (both counted from 1) in a run that did not stop
EventOf(i, k) == run_log[(i - 1) * Len(steps) + k]

\* the trace of one step says what happened to it
TraceTells(trace, step_cfg, ev) ==
    /\ trace.name = step_cfg.name
    /\ trace.status \in {"skipped_disabled", "skipped_exists", "ran", "failed"}
    /\ trace.status = "skipped_disabled" <=> ~step_cfg.enabled
    /\ trace.status = "skipped_exists" <=> (step_cfg.enabled /\ ev.existed)
    /\ trace.status = "ran" <=> ev.event = "run_returned"
    /\ trace.status = "failed" <=> ev.event \in {"build_raised", "run_raised"}

\* the first n steps of file i are traced, one trace each, in configuration order
TracedUpTo(ft, i, n) ==
    /\ Len(ft.steps) = n
    /\ \A k \in 1..n : TraceTells(ft.steps[k], steps[k], EventOf(i, k))

FileStatusTells(ft) ==
    ft.status = IF \E k \in 1..Len(ft.steps) : ft.steps[k].status = "failed"
                THEN "failed" ELSE "success"

TracesComplete ==
    /\ pipe_pc = "steps" => TracedUpTo(file_trace, file_idx + 1, step_idx)
    /\ Len(report) = file_idx
    /\ \A i \in 1..Len(report) :
          /\ report[i].input = input_files[i]
          /\ TracedUpTo(report[i], i, Len(steps))
          /\ FileStatusTells(report[i])
    /\ pipe_pc = "returned" => Len(report) = Len(input_files)

\* C30: for every input file and every configured step exactly one StepTrace is
\* appended, in configuration order: skipped_disabled iff the step is disabled,
\* skipped_exists iff it is enabled and its output exists, ran iff it ran without
\* raising, failed iff building or running it raised; a failed step does not stop
\* the steps after it, and the file is failed iff one of its steps is.
C30_EveryStepTraced ==
    /\ pipe_pc # "raised"
    /\ TracesComplete

\* building a step raised and run_pipeline stopped there: no trace for the step,
\* none for the steps after it, no report
C30_BuildAborts ==
    /\ pipe_pc = "raised"
    /\ run_log[Len(run_log)].event = "build_raised"
    /\ Len(file_trace.steps) = step_idx
    /\ step_idx < Len(steps)
    /\ report = <<>>

\* with parameters every constructor accepts, the traces are as stated
C30_TracedWhenBuilt ==
    (\A k \in 1..Len(steps) : build_step(steps[k]) = "built") => TracesComplete

\* a step failed while running, the step after it was processed, and the file is failed
C30_FailedThenRan ==
    /\ pipe_pc = "returned"
    /\ Len(report) > 0
    /\ Len(report[1].steps) = 2
    /\ report[1].steps[1].status = "failed"
    /\ report[1].steps[2].status = "ran"
    /\ report[1].status = "failed"

====
